---- MODULE Spec2Model ----
(***************************************************************************)
(* projectkit: the transactional object store (crates/storage) and the     *)
(* credential authority (crates/auth).                                     *)
(*                                                                         *)
(* Storage: every request is an async call that suspends at each .await;   *)
(* a call is modelled as a record with a program counter and one action    *)
(* per stretch of code between two suspension points.  The filesystem      *)
(* (blobs) and the files table (files) are the two shared resources.       *)
(* Fault model: every mutating operation on either resource (create,       *)
(* write, flush, remove_file, INSERT, DELETE) may fail; reads succeed.     *)
(* A process kill (Crash) stops every call in flight where it stands.      *)
(*                                                                         *)
(* Auth: two views of AuthService.  AuthSpec follows tokens, roles and the *)
(* clock; AccountSpec follows signup, login, logout and cleanup call by    *)
(* call, with the result each returns and the response the HTTP boundary   *)
(* makes of it.                                                            *)
(*                                                                         *)
(* CryptoSpec calls hash_password, verify_password, generate_token and     *)
(* validate_token directly.  BlobSpec calls StorageService (the base       *)
(* directory alone) directly.  CatalogSpec runs the store protocol with    *)
(* the clock and the two listing queries.  ApiSpec serves HTTP requests    *)
(* one at a time through the router, its layers and the handlers.          *)
(*                                                                         *)
(* StartupSpec runs main from an empty database: migrations, seed, serve,  *)
(* then store requests.  MysqlSpec runs signup on the branch for backends  *)
(* without RETURNING.  RaceSpec runs deletes of one file that overlap in   *)
(* time.  SubjectSpec validates tokens whose subject is no user.  All but  *)
(* StartupSpec start from a server that is up, on a database that has the  *)
(* files table.                                                            *)
(***************************************************************************)
EXTENDS Integers, Sequences, FiniteSets, TLC

\* ------------------------------------------------------------------ bounds
MaxCalls == 3
MaxInFlight == 2
MaxStores == 2
MaxUser == 2
MaxLen == 1
MaxByte == 1

Calls == 1..MaxCalls
Users == 1..MaxUser
Payloads == UNION {[1..n -> 1..MaxByte] : n \in 0..MaxLen}

\* An original file name, already split the way Path::extension splits it
\* (ext = "" when the name has no extension).
OriginalNames ==
  { [stem |-> "notes", ext |-> ""],
    [stem |-> "report", ext |-> "txt"] }

\* ------------------------------------------------------------------ state
VARIABLES
  blobs,    \* the base directory: stored name -> content
  files,    \* the files table: a set of metadata rows
  calls,    \* the requests: call id -> record
  nextId    \* the ids Uuid::new_v4 has handed out are 1..nextId-1

storageVars == <<blobs, files, calls, nextId>>

VARIABLES
  users,         \* the users table: a set of rows
  nextUserId,    \* the next AUTOINCREMENT id of the users table
  sessions,      \* the sessions table: a set of rows
  pending,       \* signups between their pre-read and their INSERT
  issued,        \* the tokens login has returned to clients
  now,           \* the clock (Utc::now), in seconds
  ticks,         \* how often the clock has advanced
  lastValidate   \* the latest validate call: its token and its result

VARIABLES
  signups,       \* the signup calls, each with its position and its result
  lastCall       \* the latest login, logout or cleanup call and its result

accountVars == <<signups, lastCall>>

VARIABLES
  nextSalt,      \* the salts OsRng has handed out are 0..nextSalt-1
  hashes,        \* the hash_password calls made directly: password and hash
  lastVerify,    \* the latest direct verify_password call and its result
  minted,        \* the generate_token calls made directly: inputs and token
  lastDecode,    \* the latest direct validate_token call and its result
  receipts,      \* what StorageService::store returned and delete has not removed
  lastQuery,     \* the latest direct storage or listing call and its result
  lastRequest    \* the HTTP request being answered and what the server did with it

VARIABLES
  tables,        \* the tables the database has
  boot,          \* where the server process stands in main
  lastInsertId   \* what LAST_INSERT_ID() answers on the auth service's connection

startVars == <<tables, boot, lastInsertId>>

sideVars == <<hashes, lastVerify, minted, lastDecode, receipts, lastQuery, lastRequest,
              tables, boot, lastInsertId>>

authVars == <<users, nextUserId, sessions, pending, issued, now, ticks, lastValidate,
              signups, lastCall>>

vars == <<blobs, files, calls, nextId, users, nextUserId, sessions, pending,
          issued, now, ticks, lastValidate, signups, lastCall,
          nextSalt, hashes, lastVerify, minted, lastDecode, receipts, lastQuery,
          lastRequest, tables, boot, lastInsertId>>

\* ------------------------------------------------------------ data model
\* File::new: the metadata row of a stored blob.
File(id, user_id, original_name, stored_name, size, created_at) ==
  [id |-> id, user_id |-> user_id, original_name |-> original_name,
   stored_name |-> stored_name, size |-> size, created_at |-> created_at]

NoName == [id |-> 0, ext |-> ""]
NoFile == File(0, 0, [stem |-> "", ext |-> ""], NoName, 0, 0)

\* StorageError, one value per way the code builds it.
IoError == [variant |-> "IoError", msg |-> ""]
FileNotFound == [variant |-> "FileNotFound", msg |-> ""]
AccessDenied ==
  [variant |-> "StorageError", msg |-> "Access denied: file belongs to another user"]
InsertFailed == [variant |-> "StorageError", msg |-> "Database insert failed"]
DeleteFailed == [variant |-> "StorageError", msg |-> "Database delete failed"]

Pending == [kind |-> "Pending"]
OkFile(f) == [kind |-> "Ok", file |-> f]
OkBytes(b) == [kind |-> "Ok", bytes |-> b]
OkUnit == [kind |-> "Ok"]
Err(e) == [kind |-> "Err", err |-> e]

\* What a call has done to the two resources, in order: the resource, the
\* operation and whether it succeeded.
Fs(op, ok) == [res |-> "fs", op |-> op, ok |-> ok]
Db(op, ok) == [res |-> "db", op |-> op, ok |-> ok]
Did(c, entry) == \E i \in 1..Len(calls[c].log) : calls[c].log[i] = entry
TouchedFs(c) == \E i \in 1..Len(calls[c].log) : calls[c].log[i].res = "fs"

IdleCall ==
  [op |-> "none", pc |-> "idle", user |-> 0, data |-> <<>>,
   name |-> [stem |-> "", ext |-> ""], id |-> 0, stored |-> NoName,
   row |-> NoFile, path |-> NoName, result |-> Pending, log |-> <<>>]

\* ------------------------------------------------------- StorageService
\* store: stored_name is the id, plus "." and the extension when there is one.
StoredName(id, original_name) == [id |-> id, ext |-> original_name.ext]

\* The extensions retrieve/delete/exists try when the direct path is absent.
CommonExts == <<"", "jpg", "png", "pdf", "txt", "json">>

\* format!("{}{}", file_id, ext): appending ".e" to a bare id gives the stored
\* name with extension e; appending to a name that has an extension gives a
\* name with two extensions, which store never creates.
WithExt(file_id, e) ==
  IF e = "" THEN file_id
  ELSE IF file_id.ext = "" THEN [id |-> file_id.id, ext |-> e]
  ELSE NoName

\* The path retrieve and delete settle on: the direct one when it exists,
\* else the first existing one among the common extensions, else none.
ResolvePath(dir, file_id) ==
  IF file_id \in DOMAIN dir THEN file_id
  ELSE LET hits == {i \in 1..Len(CommonExts) : WithExt(file_id, CommonExts[i]) \in DOMAIN dir}
       IN IF hits = {} THEN NoName
          ELSE WithExt(file_id, CommonExts[CHOOSE i \in hits : \A j \in hits : i <= j])

Remove(dir, name) == [n \in DOMAIN dir \ {name} |-> dir[n]]
Put(dir, name, content) ==
  [n \in DOMAIN dir \cup {name} |-> IF n = name THEN content ELSE dir[n]]

\* The prefixes of s, those of more than MaxLen bytes left out unless all of s.
Prefixes(s) == {SubSeq(s, 1, k) : k \in (0..Len(s)) \cap ((0..MaxLen) \cup {Len(s)})}

\* ------------------------------------------------- metadata (files table)
RowsWithId(id) == {f \in files : f.id = id}

\* get_file_by_id: SELECT ... WHERE id = ? LIMIT 1
GetFileById(id) ==
  IF RowsWithId(id) = {} THEN NoFile ELSE CHOOSE f \in RowsWithId(id) : TRUE

\* ------------------------------------------------------------------ Init
StorageInit ==
  /\ blobs = <<>>
  /\ files = {}
  /\ calls = [c \in Calls |-> IdleCall]
  /\ nextId = 1

InFlight == {c \in Calls : calls[c].pc \notin {"idle", "done", "killed"}}

\* Call slots are taken in order (the slots are interchangeable), and at most
\* MaxInFlight requests run at once.
FreeSlot(c) ==
  /\ calls[c].pc = "idle"
  /\ \A d \in Calls : d < c => calls[d].pc # "idle"
  /\ Cardinality(InFlight) < MaxInFlight

\* Mutant: the id is not fresh (the id of the call before is handed out again).
NewUuidReused == IF nextId > 1 THEN nextId - 1 ELSE nextId

\* Uuid::new_v4: an id no earlier call was given.
NewUuid == nextId

\* ----------------------------------------------------- store_with_metadata
\* A request arrives; store generates the id and the stored name before its
\* first suspension point (lib.rs 83-95).
StartStore(c, u, d, n) ==
  /\ FreeSlot(c)
  /\ nextId <= MaxStores
  /\ calls' = [calls EXCEPT ![c] =
       [IdleCall EXCEPT !.op = "store", !.pc = "create", !.user = u, !.data = d,
                        !.name = n, !.id = NewUuid,
                        !.stored = StoredName(NewUuid, n)]]
  /\ nextId' = nextId + 1
  /\ UNCHANGED <<blobs, files>>
  /\ UNCHANGED authVars
  /\ UNCHANGED <<nextSalt, sideVars>>

\* fs::File::create(&file_path).await?
StoreCreate(c) ==
  /\ calls[c].op = "store" /\ calls[c].pc = "create"
  /\ \/ /\ blobs' = Put(blobs, calls[c].stored, <<>>)
        /\ calls' = [calls EXCEPT ![c].pc = "write",
                                  ![c].log = Append(@, Fs("create", TRUE))]
     \/ /\ blobs' = blobs
        /\ calls' = [calls EXCEPT ![c].pc = "done", ![c].result = Err(IoError),
                                  ![c].log = Append(@, Fs("create", FALSE))]
  /\ UNCHANGED <<files, nextId>>
  /\ UNCHANGED authVars
  /\ UNCHANGED <<nextSalt, sideVars>>

\* Mutant: a short write is taken for a complete one.
StoreWriteShort(c) ==
  /\ calls[c].op = "store" /\ calls[c].pc = "write"
  /\ \E p \in Prefixes(calls[c].data) : blobs' = Put(blobs, calls[c].stored, p)
  /\ calls' = [calls EXCEPT ![c].pc = "insert",
                            ![c].log = Append(@, Fs("write", TRUE))]
  /\ UNCHANGED <<files, nextId>>
  /\ UNCHANGED authVars
  /\ UNCHANGED <<nextSalt, sideVars>>

\* file.write_all(data).await?; file.flush().await?  When either fails, a
\* prefix of the data (possibly all of it) is what reached the file.
StoreWrite(c) ==
  /\ calls[c].op = "store" /\ calls[c].pc = "write"
  /\ \/ /\ blobs' = Put(blobs, calls[c].stored, calls[c].data)
        /\ calls' = [calls EXCEPT ![c].pc = "insert",
                                  ![c].log = Append(@, Fs("write", TRUE))]
     \/ /\ \E p \in Prefixes(calls[c].data) : blobs' = Put(blobs, calls[c].stored, p)
        /\ calls' = [calls EXCEPT ![c].pc = "done", ![c].result = Err(IoError),
                                  ![c].log = Append(@, Fs("write", FALSE))]
  /\ UNCHANGED <<files, nextId>>
  /\ UNCHANGED authVars
  /\ UNCHANGED <<nextSalt, sideVars>>

\* Step 2: File::new from the blob's metadata, then the INSERT INTO files,
\* which can succeed only when the database has that table.
StoreInsert(c) ==
  /\ calls[c].op = "store" /\ calls[c].pc = "insert"
  /\ LET file == File(calls[c].id, calls[c].user, calls[c].name,
                      calls[c].stored, Len(calls[c].data), now)
     IN \/ /\ "files" \in tables
           /\ files' = files \cup {file}
           /\ calls' = [calls EXCEPT ![c].pc = "done", ![c].result = OkFile(file),
                                     ![c].log = Append(@, Db("insert", TRUE))]
        \/ /\ files' = files
           /\ calls' = [calls EXCEPT ![c].pc = "compensate",
                                     ![c].log = Append(@, Db("insert", FALSE))]
  /\ UNCHANGED <<blobs, nextId>>
  /\ UNCHANGED authVars
  /\ UNCHANGED <<nextSalt, sideVars>>

\* Mutant: the insert's failure is returned without the compensating delete.
StoreCompensateSkipped(c) ==
  /\ calls[c].op = "store" /\ calls[c].pc = "compensate"
  /\ calls' = [calls EXCEPT ![c].pc = "done", ![c].result = Err(InsertFailed)]
  /\ UNCHANGED <<blobs, files, nextId>>
  /\ UNCHANGED authVars
  /\ UNCHANGED <<nextSalt, sideVars>>

\* Err(e) arm: let _ = self.storage.delete(&stored_name).await; the outcome of
\* the delete is dropped and the insert's failure is returned.
StoreCompensate(c) ==
  /\ calls[c].op = "store" /\ calls[c].pc = "compensate"
  /\ LET path == ResolvePath(blobs, calls[c].stored)
     IN \/ /\ path # NoName
           /\ blobs' = Remove(blobs, path)
           /\ calls' = [calls EXCEPT ![c].pc = "done", ![c].result = Err(InsertFailed),
                                     ![c].log = Append(@, Fs("remove", TRUE))]
        \/ /\ blobs' = blobs
           /\ calls' = [calls EXCEPT ![c].pc = "done", ![c].result = Err(InsertFailed),
                                     ![c].log = Append(@, Fs("remove", FALSE))]
  /\ UNCHANGED <<files, nextId>>
  /\ UNCHANGED authVars
  /\ UNCHANGED <<nextSalt, sideVars>>

\* ---------------------------------------------------- delete_with_metadata
StartDelete(c, u, id) ==
  /\ FreeSlot(c)
  /\ calls' = [calls EXCEPT ![c] =
       [IdleCall EXCEPT !.op = "delete", !.pc = "lookup", !.user = u, !.id = id]]
  /\ UNCHANGED <<blobs, files, nextId>>
  /\ UNCHANGED authVars
  /\ UNCHANGED <<nextSalt, sideVars>>

\* Mutant: delete without the ownership check.
DeleteLookupNoOwnerCheck(c) ==
  /\ calls[c].op = "delete" /\ calls[c].pc = "lookup"
  /\ LET file == GetFileById(calls[c].id)
     IN calls' = [calls EXCEPT ![c].row = file,
          ![c].log = Append(@, Db("select", TRUE)),
          ![c].pc = IF file = NoFile THEN "done" ELSE "dbdelete",
          ![c].result = IF file = NoFile THEN Err(FileNotFound) ELSE Pending]
  /\ UNCHANGED <<blobs, files, nextId>>
  /\ UNCHANGED authVars
  /\ UNCHANGED <<nextSalt, sideVars>>

\* Steps 1 and 2: fetch the row, then the ownership check.
DeleteLookup(c) ==
  /\ calls[c].op = "delete" /\ calls[c].pc = "lookup"
  /\ LET file == GetFileById(calls[c].id)
     IN calls' = [calls EXCEPT ![c].row = file,
          ![c].log = Append(@, Db("select", TRUE)),
          ![c].pc = IF file = NoFile \/ file.user_id # calls[c].user
                    THEN "done" ELSE "dbdelete",
          ![c].result = IF file = NoFile THEN Err(FileNotFound)
                        ELSE IF file.user_id # calls[c].user THEN Err(AccessDenied)
                        ELSE Pending]
  /\ UNCHANGED <<blobs, files, nextId>>
  /\ UNCHANGED authVars
  /\ UNCHANGED <<nextSalt, sideVars>>

\* Mutant: the outcome of the DELETE is ignored and the blob is removed anyway.
DeleteRowErrorIgnored(c) ==
  /\ calls[c].op = "delete" /\ calls[c].pc = "dbdelete"
  /\ \/ /\ files' = files \ RowsWithId(calls[c].id)
        /\ calls' = [calls EXCEPT ![c].pc = "rmblob",
                                  ![c].log = Append(@, Db("delete", TRUE))]
     \/ /\ files' = files
        /\ calls' = [calls EXCEPT ![c].pc = "rmblob",
                                  ![c].log = Append(@, Db("delete", FALSE))]
  /\ UNCHANGED <<blobs, nextId>>
  /\ UNCHANGED authVars
  /\ UNCHANGED <<nextSalt, sideVars>>

\* Mutant: the DELETE matches no row (a wrong key) and still reports success.
DeleteRowWrongKey(c) ==
  /\ calls[c].op = "delete" /\ calls[c].pc = "dbdelete"
  /\ files' = files
  /\ calls' = [calls EXCEPT ![c].pc = "rmblob",
                            ![c].log = Append(@, Db("delete", TRUE))]
  /\ UNCHANGED <<blobs, nextId>>
  /\ UNCHANGED authVars
  /\ UNCHANGED <<nextSalt, sideVars>>

\* Mutant: the two deletes in the other order, the blob first.
DeleteRowBlobFirst(c) ==
  /\ calls[c].op = "delete" /\ calls[c].pc = "dbdelete"
  /\ LET path == ResolvePath(blobs, calls[c].row.stored_name)
     IN blobs' = IF path = NoName THEN blobs ELSE Remove(blobs, path)
  /\ files' = files
  /\ calls' = [calls EXCEPT ![c].pc = "rmblob",
                            ![c].log = Append(@, Fs("remove", TRUE))]
  /\ UNCHANGED nextId
  /\ UNCHANGED authVars
  /\ UNCHANGED <<nextSalt, sideVars>>

\* Step 3: DELETE FROM files WHERE id = ?1
DeleteRow(c) ==
  /\ calls[c].op = "delete" /\ calls[c].pc = "dbdelete"
  /\ \/ /\ files' = files \ RowsWithId(calls[c].id)
        /\ calls' = [calls EXCEPT ![c].pc = "rmblob",
                                  ![c].log = Append(@, Db("delete", TRUE))]
     \/ /\ files' = files
        /\ calls' = [calls EXCEPT ![c].pc = "done", ![c].result = Err(DeleteFailed),
                                  ![c].log = Append(@, Db("delete", FALSE))]
  /\ UNCHANGED <<blobs, nextId>>
  /\ UNCHANGED authVars
  /\ UNCHANGED <<nextSalt, sideVars>>

\* Mutant: a blob that is already gone counts as deleted.
DeleteBlobMissingOk(c) ==
  /\ calls[c].op = "delete" /\ calls[c].pc = "rmblob"
  /\ LET path == ResolvePath(blobs, calls[c].row.stored_name)
     IN /\ blobs' = IF path = NoName THEN blobs ELSE Remove(blobs, path)
        /\ calls' = [calls EXCEPT ![c].pc = "done", ![c].result = OkUnit,
                                  ![c].log = Append(@, Fs("remove", path # NoName))]
  /\ UNCHANGED <<files, nextId>>
  /\ UNCHANGED authVars
  /\ UNCHANGED <<nextSalt, sideVars>>

\* Step 4: self.storage.delete(&file.stored_name).await?; then Ok(()).
\* StorageService::delete: no path found is FileNotFound, a failing
\* remove_file (also: the file went away after the exists check) is IoError.
DeleteBlob(c) ==
  /\ calls[c].op = "delete" /\ calls[c].pc = "rmblob"
  /\ LET path == ResolvePath(blobs, calls[c].row.stored_name)
     IN \/ /\ path = NoName
           /\ blobs' = blobs
           /\ calls' = [calls EXCEPT ![c].pc = "done", ![c].result = Err(FileNotFound),
                                     ![c].log = Append(@, Fs("remove", FALSE))]
        \/ /\ path # NoName
           /\ blobs' = Remove(blobs, path)
           /\ calls' = [calls EXCEPT ![c].pc = "done", ![c].result = OkUnit,
                                     ![c].log = Append(@, Fs("remove", TRUE))]
        \/ /\ path # NoName
           /\ blobs' = blobs
           /\ calls' = [calls EXCEPT ![c].pc = "done", ![c].result = Err(IoError),
                                     ![c].log = Append(@, Fs("remove", FALSE))]
  /\ UNCHANGED <<files, nextId>>
  /\ UNCHANGED authVars
  /\ UNCHANGED <<nextSalt, sideVars>>

\* ------------------------------------------------ retrieve_with_permission
StartRetrieve(c, u, id) ==
  /\ FreeSlot(c)
  /\ calls' = [calls EXCEPT ![c] =
       [IdleCall EXCEPT !.op = "retrieve", !.pc = "lookup", !.user = u, !.id = id]]
  /\ UNCHANGED <<blobs, files, nextId>>
  /\ UNCHANGED authVars
  /\ UNCHANGED <<nextSalt, sideVars>>

\* Mutant: the blob is looked up before the ownership check.
RetrieveLookupReadFirst(c) ==
  /\ calls[c].op = "retrieve" /\ calls[c].pc = "lookup"
  /\ LET file == GetFileById(calls[c].id)
         denied == file # NoFile /\ file.user_id # calls[c].user
         path == ResolvePath(blobs, file.stored_name)
     IN calls' = [calls EXCEPT ![c].row = file,
          ![c].log = IF file = NoFile
                     THEN Append(@, Db("select", TRUE))
                     ELSE Append(Append(@, Db("select", TRUE)), Fs("exists", path # NoName)),
          ![c].path = IF file = NoFile \/ denied THEN NoName ELSE path,
          ![c].pc = IF file = NoFile \/ denied \/ path = NoName THEN "done" ELSE "open",
          ![c].result = IF file = NoFile THEN Err(FileNotFound)
                        ELSE IF path = NoName THEN Err(FileNotFound)
                        ELSE IF denied THEN Err(AccessDenied)
                        ELSE Pending]
  /\ UNCHANGED <<blobs, files, nextId>>
  /\ UNCHANGED authVars
  /\ UNCHANGED <<nextSalt, sideVars>>

\* Fetch the row, then the ownership check; the owner goes on to
\* StorageService::retrieve, whose exists checks settle the path.
RetrieveLookup(c) ==
  /\ calls[c].op = "retrieve" /\ calls[c].pc = "lookup"
  /\ LET file == GetFileById(calls[c].id)
         denied == file # NoFile /\ file.user_id # calls[c].user
         path == ResolvePath(blobs, file.stored_name)
     IN calls' = [calls EXCEPT ![c].row = file,
          ![c].log = IF file = NoFile \/ denied
                     THEN Append(@, Db("select", TRUE))
                     ELSE Append(Append(@, Db("select", TRUE)), Fs("exists", path # NoName)),
          ![c].path = IF file = NoFile \/ denied THEN NoName ELSE path,
          ![c].pc = IF file = NoFile \/ denied \/ path = NoName THEN "done" ELSE "open",
          ![c].result = IF file = NoFile THEN Err(FileNotFound)
                        ELSE IF denied THEN Err(AccessDenied)
                        ELSE IF path = NoName THEN Err(FileNotFound)
                        ELSE Pending]
  /\ UNCHANGED <<blobs, files, nextId>>
  /\ UNCHANGED authVars
  /\ UNCHANGED <<nextSalt, sideVars>>

\* fs::File::open(&file_path).await?; read_to_end: the file may have been
\* removed since the exists check.
RetrieveOpen(c) ==
  /\ calls[c].op = "retrieve" /\ calls[c].pc = "open"
  /\ LET there == calls[c].path \in DOMAIN blobs
     IN calls' = [calls EXCEPT ![c].pc = "done",
          ![c].log = Append(@, Fs("open", there)),
          ![c].result = IF there THEN OkBytes(blobs[calls[c].path]) ELSE Err(IoError)]
  /\ UNCHANGED <<blobs, files, nextId>>
  /\ UNCHANGED authVars
  /\ UNCHANGED <<nextSalt, sideVars>>

\* ----------------------------------------------------------------- crash
\* The process is killed: every request in flight stops where it stands and
\* returns nothing.  What a killed delete had done to the table stays on
\* record; nothing else of a killed request matters afterwards.
Crash ==
  /\ InFlight # {}
  /\ calls' = [c \in Calls |->
       IF c \in InFlight
       THEN IF calls[c].op = "delete" /\ Did(c, Db("delete", TRUE))
            THEN [IdleCall EXCEPT !.op = "delete", !.pc = "killed",
                                  !.id = calls[c].id,
                                  !.log = <<Db("delete", TRUE)>>]
            ELSE [IdleCall EXCEPT !.op = calls[c].op, !.pc = "killed"]
       ELSE calls[c]]
  /\ UNCHANGED <<blobs, files, nextId>>
  /\ UNCHANGED authVars
  /\ UNCHANGED <<nextSalt, sideVars>>

\* The ids a request can name: those handed out so far and one never issued.
KnownIds == 1..nextId

\* Deletes that race: a delete request by the owner of a stored file arrives
\* while every delete request so far is still running and is for the same
\* file by the same user.
Racing(u, id) ==
  /\ \E s \in Calls :
       /\ calls[s].op = "store" /\ calls[s].result.kind = "Ok"
       /\ calls[s].id = id /\ calls[s].user = u
  /\ \A d \in Calls :
       calls[d].op = "delete" => (d \in InFlight /\ calls[d].id = id /\ calls[d].user = u)

\* Stores, and deletes that overlap in time.
RaceNext ==
  \/ \E c \in Calls, u \in Users, d \in Payloads, n \in OriginalNames :
       StartStore(c, u, d, n)
  \/ \E c \in Calls : StoreCreate(c)
  \/ \E c \in Calls : StoreWrite(c)
  \/ \E c \in Calls : StoreInsert(c)
  \/ \E c \in Calls : StoreCompensate(c)
  \/ \E c \in Calls, u \in Users, id \in KnownIds : Racing(u, id) /\ StartDelete(c, u, id)
  \/ \E c \in Calls : DeleteLookup(c)
  \/ \E c \in Calls : DeleteRow(c)
  \/ \E c \in Calls : DeleteBlob(c)

\* ------------------------------------------------------------------ Next
StorageNext ==
  \/ \E c \in Calls, u \in Users, d \in Payloads, n \in OriginalNames :
       StartStore(c, u, d, n)
  \/ \E c \in Calls : StoreCreate(c)
  \/ \E c \in Calls : StoreWrite(c)
  \/ \E c \in Calls : StoreInsert(c)
  \/ \E c \in Calls : StoreCompensate(c)
  \/ \E c \in Calls, u \in Users, id \in KnownIds : StartDelete(c, u, id)
  \/ \E c \in Calls : DeleteLookup(c)
  \/ \E c \in Calls : DeleteRow(c)
  \/ \E c \in Calls : DeleteBlob(c)
  \/ \E c \in Calls, u \in Users, id \in KnownIds : StartRetrieve(c, u, id)
  \/ \E c \in Calls : RetrieveLookup(c)
  \/ \E c \in Calls : RetrieveOpen(c)
  \/ Crash

\* ===================================================================== auth
MaxTokens == 2
MaxTicks == 2
MaxSignups == 1

\* default_token_expiry (config.rs) and the leeway of Validation::default().
TokenExpirySeconds == 3600
Leeway == 60

Roles == {"User", "Service"}
Emails == {"a@x.com", "b@x.com"}
Passwords == {"pw"}
JwtSecret == "secret"

\* SaltString::generate(&mut OsRng): 16 random bytes, taken to be a salt no
\* earlier call has drawn.
SaltStringGenerate == nextSalt

\* Mutant: the password is stored as it came, not as a hash of it.
HashPasswordPlain(password, salt) == [plain |-> password]

\* Mutant: every hash under one salt.
HashPasswordFixedSalt(password, salt) == [argon2 |-> password, salt |-> 0]

\* hash_password, given the salt it drew: the PHC string carries the salt and
\* the Argon2 output, which binds the password and the salt.
HashPassword(password, salt) == [argon2 |-> password, salt |-> salt]

\* verify_password: parse the PHC string, hash the password under its salt
\* and compare.
VerifyPassword(password, hash) ==
  /\ "argon2" \in DOMAIN hash
  /\ hash = HashPassword(password, hash.salt)

UserRow(id, email, password_hash, role) ==
  [id |-> id, email |-> email, password_hash |-> password_hash, role |-> role]
NoUser == UserRow(0, "", [argon2 |-> "", salt |-> 0], "")

\* i64::to_string and str::parse::<i64>: a subject is a string, which is or is
\* not the decimal form of an integer.
IdToString(id) == [decimal |-> TRUE, text |-> id]
ParseId(sub) == IF sub.decimal THEN sub.text ELSE -1

\* DateTime::to_rfc3339 of a UTC time, and the order SQL puts on two such
\* strings (TEXT comparison): same zone, same layout, so the order of the
\* instants.
ToRfc3339(t) == [rfc3339 |-> t]
Rfc3339Less(a, b) == a.rfc3339 < b.rfc3339

\* Session::new and Session::to_values: the row login writes.
SessionRow(user_id, token, expires_at) ==
  [user_id |-> user_id, token |-> token, expires_at |-> ToRfc3339(expires_at)]

\* AuthError, one value per way the code builds it.
InvalidPassword == [variant |-> "InvalidPassword", msg |-> ""]
TokenExpired == [variant |-> "TokenExpired", msg |-> ""]
InvalidToken == [variant |-> "InvalidToken", msg |-> ""]
DecodeError(m) == [variant |-> "TokenValidationError", msg |-> m]
RoleChanged ==
  [variant |-> "TokenValidationError",
   msg |-> "User role has changed, please login again"]

OkClaims(c) == [kind |-> "Ok", claims |-> c]
OkUser(u) == [kind |-> "Ok", user |-> u]

\* Claims::new and generate_token: the claims, signed with the secret.
GenerateToken(user_id, role, secret, expires_in_seconds, t) ==
  [sub |-> user_id, role |-> role, iat |-> t, exp |-> t + expires_in_seconds,
   key |-> secret]

\* Mutant: validate_token without its own is_expired check, leaving expiry to
\* decode and its leeway.
ValidateTokenLeewayOnly(token, secret, t) ==
  IF token.key # secret THEN Err(DecodeError("InvalidSignature"))
  ELSE IF token.exp < t - Leeway THEN Err(DecodeError("ExpiredSignature"))
  ELSE OkClaims([sub |-> token.sub, role |-> token.role,
                 iat |-> token.iat, exp |-> token.exp])

\* Mutant: the claims are read without checking the signature.
ValidateTokenUnsigned(token, secret, t) ==
  IF token.exp < t - Leeway THEN Err(DecodeError("ExpiredSignature"))
  ELSE IF t > token.exp THEN Err(TokenExpired)
  ELSE OkClaims([sub |-> token.sub, role |-> token.role,
                 iat |-> token.iat, exp |-> token.exp])

\* validate_token: decode checks the signature, then exp with the default
\* leeway; then Claims::is_expired.
ValidateToken(token, secret, t) ==
  IF token.key # secret THEN Err(DecodeError("InvalidSignature"))
  ELSE IF token.exp < t - Leeway THEN Err(DecodeError("ExpiredSignature"))
  ELSE IF t > token.exp THEN Err(TokenExpired)
  ELSE OkClaims([sub |-> token.sub, role |-> token.role,
                 iat |-> token.iat, exp |-> token.exp])

FindUserByEmail(email) ==
  IF \E u \in users : u.email = email
  THEN CHOOSE u \in users : u.email = email ELSE NoUser

FindUserById(id) ==
  IF \E u \in users : u.id = id
  THEN CHOOSE u \in users : u.id = id ELSE NoUser

\* Mutant: validate trusts the role embedded in the token.
ValidateResultNoRoleCheck(token) ==
  LET decoded == ValidateToken(token, JwtSecret, now)
  IN IF decoded.kind = "Err" THEN decoded
     ELSE IF ~decoded.claims.sub.decimal THEN Err(InvalidToken)
     ELSE LET user == FindUserById(ParseId(decoded.claims.sub))
          IN IF user = NoUser THEN Err(InvalidToken) ELSE OkUser(user)

\* Mutant: validate also wants a session row for the token.
ValidateResultSessionChecked(token) ==
  LET decoded == ValidateToken(token, JwtSecret, now)
  IN IF decoded.kind = "Err" THEN decoded
     ELSE IF ~decoded.claims.sub.decimal THEN Err(InvalidToken)
     ELSE LET user == FindUserById(ParseId(decoded.claims.sub))
          IN IF user = NoUser THEN Err(InvalidToken)
             ELSE IF user.role # decoded.claims.role THEN Err(RoleChanged)
             ELSE IF \A x \in sessions : x.token # token THEN Err(InvalidToken)
             ELSE OkUser(user)

\* validate with a memory: a rejection for a changed role is remembered for
\* the user, whose tokens are then refused without a look at the users table.
ValidateResultRemembered(token) ==
  LET decoded == ValidateToken(token, JwtSecret, now)
  IN IF decoded.kind = "Err" THEN decoded
     ELSE IF ~decoded.claims.sub.decimal THEN Err(InvalidToken)
     ELSE IF lastValidate.result = Err(RoleChanged) /\ lastValidate.token.sub = token.sub
     THEN Err(RoleChanged)
     ELSE LET user == FindUserById(ParseId(decoded.claims.sub))
          IN IF user = NoUser THEN Err(InvalidToken)
             ELSE IF user.role # decoded.claims.role THEN Err(RoleChanged)
             ELSE OkUser(user)

\* Mutant: with no row for the subject, the user is made up from the claims.
ValidateResultFromClaims(token) ==
  LET decoded == ValidateToken(token, JwtSecret, now)
  IN IF decoded.kind = "Err" THEN decoded
     ELSE IF ~decoded.claims.sub.decimal THEN Err(InvalidToken)
     ELSE LET user == FindUserById(ParseId(decoded.claims.sub))
          IN IF user = NoUser
             THEN OkUser(UserRow(ParseId(decoded.claims.sub), "", NoUser.password_hash,
                                 decoded.claims.role))
             ELSE IF user.role # decoded.claims.role THEN Err(RoleChanged)
             ELSE OkUser(user)

\* AuthService::validate
ValidateResult(token) ==
  LET decoded == ValidateToken(token, JwtSecret, now)
  IN IF decoded.kind = "Err" THEN decoded
     ELSE IF ~decoded.claims.sub.decimal THEN Err(InvalidToken)
     ELSE LET user == FindUserById(ParseId(decoded.claims.sub))
          IN IF user = NoUser THEN Err(InvalidToken)
             ELSE IF user.role # decoded.claims.role THEN Err(RoleChanged)
             ELSE OkUser(user)

\* seed_database: the default service account exists after startup.
AuthInit ==
  /\ users = {UserRow(1, "admin@projectkit.local", HashPassword("admin123", 0), "Service")}
  /\ nextUserId = 2
  /\ sessions = {}
  /\ pending = {}
  /\ issued = {}
  /\ now = 0
  /\ ticks = 0
  /\ lastValidate = [token |-> GenerateToken(IdToString(0), "", "", 0, 0), result |-> Pending]

\* signup_with_role, up to the pre-read: an existing email ends the call.
SignupCheck(email, password, role) ==
  /\ nextUserId + Cardinality(pending) < 2 + MaxSignups
  /\ FindUserByEmail(email) = NoUser
  /\ pending' = pending \cup {UserRow(0, email, HashPassword(password, SaltStringGenerate), role)}
  /\ UNCHANGED <<users, nextUserId, sessions, issued, now, ticks, lastValidate>>
  /\ UNCHANGED accountVars
  /\ UNCHANGED storageVars
  /\ nextSalt' = nextSalt + 1
  /\ UNCHANGED sideVars

\* signup_with_role, the INSERT: the unique index on email rejects a duplicate.
SignupInsert(user) ==
  /\ user \in pending
  /\ pending' = pending \ {user}
  /\ IF FindUserByEmail(user.email) = NoUser
     THEN /\ users' = users \cup {[user EXCEPT !.id = nextUserId]}
          /\ nextUserId' = nextUserId + 1
     ELSE UNCHANGED <<users, nextUserId>>
  /\ UNCHANGED <<sessions, issued, now, ticks, lastValidate>>
  /\ UNCHANGED accountVars
  /\ UNCHANGED storageVars
  /\ UNCHANGED <<nextSalt, sideVars>>

\* AuthService::login: the token is returned whether or not the session row
\* was written (the unique index on token, or the store, may refuse it).
Login(email, password) ==
  /\ Cardinality(issued) < MaxTokens
  /\ LET user == FindUserByEmail(email)
     IN /\ user # NoUser
        /\ VerifyPassword(password, user.password_hash)
        /\ LET token == GenerateToken(IdToString(user.id), user.role, JwtSecret,
                                      TokenExpirySeconds, now)
               session == SessionRow(user.id, token, now + TokenExpirySeconds)
           IN /\ issued' = issued \cup {token}
              /\ \/ sessions' = sessions \cup {session}
                 \/ sessions' = sessions
  /\ UNCHANGED <<users, nextUserId, pending, now, ticks, lastValidate>>
  /\ UNCHANGED accountVars
  /\ UNCHANGED storageVars
  /\ UNCHANGED <<nextSalt, sideVars>>

\* The tokens a client can present: those login returned, and any of them
\* re-signed by someone who does not hold the secret, with either role.
Presentable ==
  issued \cup {[t EXCEPT !.key = "forged", !.role = r] : t \in issued, r \in Roles}

\* Mutant: validate with a memory of the rejections for a changed role.
ValidateRemembering(token) ==
  /\ lastValidate' = [token |-> token, result |-> ValidateResultRemembered(token)]
  /\ UNCHANGED <<users, nextUserId, sessions, pending, issued, now, ticks>>
  /\ UNCHANGED accountVars
  /\ UNCHANGED storageVars
  /\ UNCHANGED <<nextSalt, sideVars>>

\* AuthService::validate
Validate(token) ==
  /\ lastValidate' = [token |-> token, result |-> ValidateResult(token)]
  /\ UNCHANGED <<users, nextUserId, sessions, pending, issued, now, ticks>>
  /\ UNCHANGED accountVars
  /\ UNCHANGED storageVars
  /\ UNCHANGED <<nextSalt, sideVars>>

\* The role of a user changes out of band (an administrative promotion or
\* demotion, done directly on the users table).
ChangeRole(id, role) ==
  /\ \E u \in users : u.id = id /\ u.role # role
  /\ users' = {IF u.id = id THEN [u EXCEPT !.role = role] ELSE u : u \in users}
  /\ UNCHANGED <<nextUserId, sessions, pending, issued, now, ticks, lastValidate>>
  /\ UNCHANGED accountVars
  /\ UNCHANGED storageVars
  /\ UNCHANGED <<nextSalt, sideVars>>

\* Time passes: a second, the leeway, or the lifetime of a token.
Tick(d) ==
  /\ ticks < MaxTicks
  /\ now' = now + d
  /\ ticks' = ticks + 1
  /\ UNCHANGED <<users, nextUserId, sessions, pending, issued, lastValidate>>
  /\ UNCHANGED accountVars
  /\ UNCHANGED storageVars
  /\ UNCHANGED <<nextSalt, sideVars>>

AuthNext ==
  \/ \E e \in Emails, p \in Passwords : SignupCheck(e, p, "User")
  \/ \E u \in pending : SignupInsert(u)
  \/ \E e \in Emails \cup {"admin@projectkit.local"}, p \in Passwords \cup {"admin123"} :
       Login(e, p)
  \/ \E t \in Presentable : Validate(t)
  \/ \E id \in 1..(nextUserId - 1), r \in Roles : ChangeRole(id, r)
  \/ \E d \in {1, Leeway, TokenExpirySeconds} : Tick(d)

\* ================================================================ accounts
\* The same service, call by call: each signup, login, logout and cleanup
\* with the result it returns.  Fault model as for storage: the INSERTs and
\* DELETEs may fail, reads succeed.
MaxSignupCalls == 2

SignupCalls == 1..MaxSignupCalls
AllPasswords == Passwords \cup {"admin123"}
AllEmails == Emails \cup {"admin@projectkit.local"}

\* The errors signup, logout and cleanup build.
UserAlreadyExists == [variant |-> "TokenValidationError", msg |-> "User already exists"]
InsertError == [variant |-> "TokenGenerationError", msg |-> "Database error"]
DatabaseError == [variant |-> "TokenValidationError", msg |-> "Database error"]

OkLogin(token, user) == [kind |-> "Ok", token |-> token, user |-> user]
OkCount(n) == [kind |-> "Ok", rows_affected |-> n]

\* A string that is no token of anyone.
NoToken == GenerateToken(IdToString(0), "", "", 0, 0)

IdleSignup ==
  [pc |-> "idle", email |-> "", password |-> "", role |-> "", id |-> 0,
   result |-> Pending]
NoCall ==
  [op |-> "none", email |-> "", password |-> "",
   token |-> NoToken,
   session_written |-> FALSE, result |-> Pending]

AccountInit ==
  /\ signups = [c \in SignupCalls |-> IdleSignup]
  /\ lastCall = NoCall

\* signup_with_role up to the INSERT: the pre-read, then the hash.
SignupStart(c, email, password, role) ==
  /\ signups[c].pc = "idle"
  /\ \A d \in SignupCalls : d < c => signups[d].pc # "idle"
  /\ signups' = [signups EXCEPT ![c] =
       IF FindUserByEmail(email) # NoUser
       THEN [pc |-> "done", email |-> email, password |-> password, role |-> role,
             id |-> 0, result |-> Err(UserAlreadyExists)]
       ELSE [pc |-> "insert", email |-> email, password |-> password, role |-> role,
             id |-> 0, result |-> Pending]]
  /\ UNCHANGED <<users, nextUserId, sessions, pending, issued, now, ticks,
                 lastValidate, lastCall>>
  /\ UNCHANGED storageVars
  /\ UNCHANGED <<nextSalt, sideVars>>

\* Mutant: the users table without its unique index on email.
SignupCommitNoUniqueIndex(c) ==
  /\ signups[c].pc = "insert"
  /\ LET user == UserRow(nextUserId, signups[c].email,
                         HashPassword(signups[c].password, SaltStringGenerate), signups[c].role)
     IN /\ users' = users \cup {user}
        /\ nextUserId' = nextUserId + 1
        /\ signups' = [signups EXCEPT ![c].pc = "done", ![c].result = OkUser(user)]
  /\ UNCHANGED <<sessions, pending, issued, now, ticks, lastValidate, lastCall>>
  /\ UNCHANGED storageVars
  /\ nextSalt' = nextSalt + 1
  /\ UNCHANGED sideVars

\* signup_with_role, the INSERT ... RETURNING: the row comes back with the id
\* the table gave it; idx_users_email refuses a second row with the email,
\* and the statement may fail for any other reason.
SignupCommit(c) ==
  /\ signups[c].pc = "insert"
  /\ LET user == UserRow(nextUserId, signups[c].email,
                         HashPassword(signups[c].password, SaltStringGenerate), signups[c].role)
     IN \/ /\ FindUserByEmail(signups[c].email) = NoUser
           /\ users' = users \cup {user}
           /\ nextUserId' = nextUserId + 1
           /\ signups' = [signups EXCEPT ![c].pc = "done", ![c].result = OkUser(user)]
        \/ /\ signups' = [signups EXCEPT ![c].pc = "done", ![c].result = Err(InsertError)]
           /\ UNCHANGED <<users, nextUserId>>
  /\ UNCHANGED <<sessions, pending, issued, now, ticks, lastValidate, lastCall>>
  /\ UNCHANGED storageVars
  /\ nextSalt' = nextSalt + 1
  /\ UNCHANGED sideVars

\* Mutant: an unknown email gets an error of its own.
LoginOutcomeUserNotFound(email, password) ==
  LET user == FindUserByEmail(email)
  IN IF user = NoUser THEN Err(InvalidToken)
     ELSE IF ~VerifyPassword(password, user.password_hash) THEN Err(InvalidPassword)
     ELSE OkLogin(GenerateToken(IdToString(user.id), user.role, JwtSecret,
                                TokenExpirySeconds, now), user)

\* AuthService::login up to the token: lookup, verify_password, generate_token.
LoginOutcome(email, password) ==
  LET user == FindUserByEmail(email)
  IN IF user = NoUser THEN Err(InvalidPassword)
     ELSE IF ~VerifyPassword(password, user.password_hash) THEN Err(InvalidPassword)
     ELSE OkLogin(GenerateToken(IdToString(user.id), user.role, JwtSecret,
                                TokenExpirySeconds, now), user)

\* Mutant: a login whose session row could not be written fails.
LoginRequestSessionRequired(email, password) ==
  /\ LET r == LoginOutcome(email, password)
         session == SessionRow(r.user.id, r.token, now + TokenExpirySeconds)
     IN IF r.kind = "Err"
        THEN /\ lastCall' = [NoCall EXCEPT !.op = "login", !.email = email,
                                           !.password = password, !.result = r]
             /\ UNCHANGED <<issued, sessions>>
        ELSE /\ Cardinality(issued \cup {r.token}) <= MaxTokens
             /\ \/ /\ \A x \in sessions : x.token # r.token
                   /\ sessions' = sessions \cup {session}
                   /\ issued' = issued \cup {r.token}
                   /\ lastCall' = [NoCall EXCEPT !.op = "login", !.email = email,
                         !.password = password, !.token = r.token,
                         !.session_written = TRUE, !.result = r]
                \/ /\ lastCall' = [NoCall EXCEPT !.op = "login", !.email = email,
                         !.password = password, !.result = Err(DatabaseError)]
                   /\ UNCHANGED <<issued, sessions>>
  /\ UNCHANGED <<users, nextUserId, pending, now, ticks, lastValidate, signups>>
  /\ UNCHANGED storageVars
  /\ UNCHANGED <<nextSalt, sideVars>>

\* AuthService::login, whole: the INSERT of the session row is refused by
\* idx_sessions_token when the token is already there, or fails for any other
\* reason; `let _ =` drops its outcome.
LoginRequest(email, password) ==
  /\ LET r == LoginOutcome(email, password)
         session == SessionRow(r.user.id, r.token, now + TokenExpirySeconds)
     IN IF r.kind = "Err"
        THEN /\ lastCall' = [NoCall EXCEPT !.op = "login", !.email = email,
                                           !.password = password, !.result = r]
             /\ UNCHANGED <<issued, sessions>>
        ELSE /\ Cardinality(issued \cup {r.token}) <= MaxTokens
             /\ issued' = issued \cup {r.token}
             /\ \E written \in BOOLEAN :
                  /\ written => \A x \in sessions : x.token # r.token
                  /\ sessions' = IF written THEN sessions \cup {session} ELSE sessions
                  /\ lastCall' = [NoCall EXCEPT !.op = "login", !.email = email,
                        !.password = password, !.token = r.token,
                        !.session_written = written, !.result = r]
  /\ UNCHANGED <<users, nextUserId, pending, now, ticks, lastValidate, signups>>
  /\ UNCHANGED storageVars
  /\ UNCHANGED <<nextSalt, sideVars>>

\* Mutant: logout ends every session of the token's user.
LogoutEverySession(token) ==
  /\ \/ /\ sessions' = {x \in sessions : IdToString(x.user_id) # token.sub}
        /\ lastCall' = [NoCall EXCEPT !.op = "logout", !.token = token, !.result = OkUnit]
     \/ /\ sessions' = sessions
        /\ lastCall' = [NoCall EXCEPT !.op = "logout", !.token = token,
                                      !.result = Err(DatabaseError)]
  /\ UNCHANGED <<users, nextUserId, pending, issued, now, ticks, lastValidate, signups>>
  /\ UNCHANGED storageVars
  /\ UNCHANGED <<nextSalt, sideVars>>

\* AuthService::logout: DELETE FROM sessions WHERE token = ?
Logout(token) ==
  /\ \/ /\ sessions' = {x \in sessions : x.token # token}
        /\ lastCall' = [NoCall EXCEPT !.op = "logout", !.token = token, !.result = OkUnit]
     \/ /\ sessions' = sessions
        /\ lastCall' = [NoCall EXCEPT !.op = "logout", !.token = token,
                                      !.result = Err(DatabaseError)]
  /\ UNCHANGED <<users, nextUserId, pending, issued, now, ticks, lastValidate, signups>>
  /\ UNCHANGED storageVars
  /\ UNCHANGED <<nextSalt, sideVars>>

\* Mutant: a session that expires this very instant is deleted too.
CleanupExpiredSessionsInclusive ==
  /\ LET expired == {x \in sessions : ~Rfc3339Less(ToRfc3339(now), x.expires_at)}
     IN \/ /\ sessions' = sessions \ expired
           /\ lastCall' = [NoCall EXCEPT !.op = "cleanup",
                                         !.result = OkCount(Cardinality(expired))]
        \/ /\ sessions' = sessions
           /\ lastCall' = [NoCall EXCEPT !.op = "cleanup", !.result = Err(DatabaseError)]
  /\ UNCHANGED <<users, nextUserId, pending, issued, now, ticks, lastValidate, signups>>
  /\ UNCHANGED storageVars
  /\ UNCHANGED <<nextSalt, sideVars>>

\* AuthService::cleanup_expired_sessions:
\* DELETE FROM sessions WHERE expires_at < '<now>'; Ok(rows_affected)
CleanupExpiredSessions ==
  /\ LET expired == {x \in sessions : Rfc3339Less(x.expires_at, ToRfc3339(now))}
     IN \/ /\ sessions' = sessions \ expired
           /\ lastCall' = [NoCall EXCEPT !.op = "cleanup",
                                         !.result = OkCount(Cardinality(expired))]
        \/ /\ sessions' = sessions
           /\ lastCall' = [NoCall EXCEPT !.op = "cleanup", !.result = Err(DatabaseError)]
  /\ UNCHANGED <<users, nextUserId, pending, issued, now, ticks, lastValidate, signups>>
  /\ UNCHANGED storageVars
  /\ UNCHANGED <<nextSalt, sideVars>>

AccountNext ==
  \/ \E c \in SignupCalls, e \in Emails, p \in Passwords :
       SignupStart(c, e, p, "User")
  \/ \E c \in SignupCalls : SignupCommit(c)
  \/ \E e \in AllEmails, p \in AllPasswords : LoginRequest(e, p)
  \/ \E t \in issued \cup {NoToken} : Logout(t)
  \/ CleanupExpiredSessions
  \/ \E d \in {1, TokenExpirySeconds} : Tick(d)

\* ------------------------------------------------------- the HTTP boundary
\* The #[error(...)] texts of AuthError: what `{}` prints for an error.
Display(e) ==
  CASE e.variant = "HashingError" -> <<"Password hashing failed: ", e.msg>>
    [] e.variant = "VerificationError" -> <<"Password verification failed">>
    [] e.variant = "InvalidPassword" -> <<"Invalid password">>
    [] e.variant = "TokenGenerationError" -> <<"Token generation failed: ", e.msg>>
    [] e.variant = "TokenValidationError" -> <<"Token validation failed: ", e.msg>>
    [] e.variant = "TokenExpired" -> <<"Token expired">>
    [] e.variant = "InvalidToken" -> <<"Invalid token">>

\* extract_user_from_token: the rejection sent when validate fails.
AuthRejection(e) == [status |-> 401, error |-> <<"Invalid token: ">> \o Display(e)]

\* The login handler: the response to a failed login.
LoginRejection(e) == [status |-> 401, error |-> <<"Login failed: ">> \o Display(e)]

\* The signup handler: the response to a failed signup.
SignupRejection(e) == [status |-> 400, error |-> <<"Signup failed: ">> \o Display(e)]

\* ------------------------------------------------------- specifications
\* ============================================ password and token functions
MaxHashes == 2
MaxMinted == 1

Subjects == {IdToString(1), [decimal |-> FALSE, text |-> 0]}
Secrets == {JwtSecret, "other-secret"}
Lifetimes == {0, 1, TokenExpirySeconds}

NoHash == [password |-> "", hash |-> [argon2 |-> "", salt |-> 0]]
NoMint ==
  [sub |-> IdToString(0), role |-> "", secret |-> "", expires_in_seconds |-> 0,
   token |-> GenerateToken(IdToString(0), "", "", 0, 0)]

CryptoInit ==
  /\ nextSalt = 1
  /\ hashes = <<>>
  /\ lastVerify = [password |-> "", entry |-> NoHash, result |-> FALSE]
  /\ minted = {}
  /\ lastDecode = [mint |-> NoMint, secret |-> "", at |-> 0, result |-> Pending]

\* A caller hashes a password.
HashCall(password) ==
  /\ Len(hashes) < MaxHashes
  /\ hashes' = Append(hashes, [password |-> password,
                               hash |-> HashPassword(password, SaltStringGenerate)])
  /\ nextSalt' = nextSalt + 1
  /\ UNCHANGED <<lastVerify, minted, lastDecode, receipts, lastQuery, lastRequest>>
  /\ UNCHANGED <<storageVars, authVars, startVars>>

\* A caller verifies a password against a hash it holds.
VerifyCall(password, i) ==
  /\ i \in DOMAIN hashes
  /\ lastVerify' = [password |-> password, entry |-> hashes[i],
                    result |-> VerifyPassword(password, hashes[i].hash)]
  /\ UNCHANGED <<nextSalt, hashes, minted, lastDecode, receipts, lastQuery, lastRequest>>
  /\ UNCHANGED <<storageVars, authVars, startVars>>

\* A caller generates a token.
MintCall(sub, role, secret, expires_in_seconds) ==
  /\ Cardinality(minted) < MaxMinted
  /\ minted' = minted \cup
       {[sub |-> sub, role |-> role, secret |-> secret,
         expires_in_seconds |-> expires_in_seconds,
         token |-> GenerateToken(sub, role, secret, expires_in_seconds, now)]}
  /\ UNCHANGED <<nextSalt, hashes, lastVerify, lastDecode, receipts, lastQuery, lastRequest>>
  /\ UNCHANGED <<storageVars, authVars, startVars>>

\* A caller validates a token it generated, under some secret.
DecodeCall(m, secret) ==
  /\ m \in minted
  /\ lastDecode' = [mint |-> m, secret |-> secret, at |-> now,
                    result |-> ValidateToken(m.token, secret, now)]
  /\ UNCHANGED <<nextSalt, hashes, lastVerify, minted, receipts, lastQuery, lastRequest>>
  /\ UNCHANGED <<storageVars, authVars, startVars>>

CryptoNext ==
  \/ \E p \in AllPasswords : HashCall(p)
  \/ \E p \in AllPasswords, i \in 1..MaxHashes : VerifyCall(p, i)
  \/ \E sub \in Subjects, r \in Roles, k \in Secrets, ttl \in Lifetimes :
       MintCall(sub, r, k, ttl)
  \/ \E m \in minted, k \in Secrets : DecodeCall(m, k)
  \/ \E d \in {1, TokenExpirySeconds} : Tick(d)

\* ===================================== tokens whose subject is no user
\* A user is removed out of band (DELETE FROM users WHERE id = ?); the
\* foreign key of sessions removes the user's sessions with it.
DeleteUser(id) ==
  /\ \E u \in users : u.id = id
  /\ users' = {u \in users : u.id # id}
  /\ sessions' = {x \in sessions : x.user_id # id}
  /\ UNCHANGED <<nextUserId, pending, issued, now, ticks, lastValidate>>
  /\ UNCHANGED accountVars
  /\ UNCHANGED storageVars
  /\ UNCHANGED <<nextSalt, sideVars>>

\* Logins, tokens made with generate_token by a holder of some secret, the
\* removal of users, and validate on any of the tokens.
SubjectNext ==
  \/ \E e \in AllEmails, p \in AllPasswords : Login(e, p)
  \/ \E sub \in Subjects, r \in Roles, k \in Secrets, ttl \in Lifetimes :
       MintCall(sub, r, k, ttl)
  \/ \E id \in 1..(nextUserId - 1) : DeleteUser(id)
  \/ \E t \in issued \cup {m.token : m \in minted} : Validate(t)
  \/ \E d \in {1, TokenExpirySeconds} : Tick(d)

\* =================================================== StorageService, alone
DirectNames == OriginalNames \cup {[stem |-> "data", ext |-> "bin"]}

\* FileMetadata, as store builds it.
FileMetadata(id, original_name, stored_name, size, created_at) ==
  [id |-> id, original_name |-> original_name, stored_name |-> stored_name,
   size |-> size, created_at |-> created_at]
OkMetadata(m) == [kind |-> "Ok", metadata |-> m]
OkBool(b) == [kind |-> "Ok", value |-> b]
OkNames(names) == [kind |-> "Ok", names |-> names]

\* The id alone, as a file_id argument.
BareId(id) == [id |-> id, ext |-> ""]

\* The file_id arguments a caller can pass: ids and stored names it has seen.
FileIds ==
  {BareId(i) : i \in 1..(nextId - 1)}
    \cup {StoredName(i, n) : i \in 1..(nextId - 1), n \in DirectNames}

\* The orders in which read_dir can yield the entries of a directory.
Enumerations(S) ==
  {s \in [1..Cardinality(S) -> S] : \A i, j \in 1..Cardinality(S) : s[i] = s[j] => i = j}

\* StorageService::new: nothing stored, nothing asked yet.
BlobInit ==
  /\ receipts = {}
  /\ lastQuery = [op |-> "none"]

\* StorageService::store
StorageStore(data, original_name) ==
  /\ nextId <= MaxStores
  /\ nextId' = nextId + 1
  /\ LET id == NewUuid
         stored_name == StoredName(id, original_name)
         metadata == FileMetadata(id, original_name, stored_name, Len(data), now)
     IN \/ /\ blobs' = Put(blobs, stored_name, data)
           /\ receipts' = receipts \cup
                {[metadata |-> metadata, data |-> data, original_name |-> original_name]}
           /\ lastQuery' = [op |-> "store", result |-> OkMetadata(metadata)]
        \/ /\ \/ blobs' = blobs
              \/ \E p \in Prefixes(data) : blobs' = Put(blobs, stored_name, p)
           /\ receipts' = receipts
           /\ lastQuery' = [op |-> "store", result |-> Err(IoError)]
  /\ UNCHANGED <<files, calls>>
  /\ UNCHANGED authVars
  /\ UNCHANGED <<nextSalt, hashes, lastVerify, minted, lastDecode, lastRequest, startVars>>

\* StorageService::retrieve
StorageRetrieve(file_id) ==
  /\ LET path == ResolvePath(blobs, file_id)
     IN lastQuery' = [op |-> "retrieve", file_id |-> file_id,
                      result |-> IF path = NoName THEN Err(FileNotFound)
                                 ELSE OkBytes(blobs[path])]
  /\ UNCHANGED <<storageVars, receipts>>
  /\ UNCHANGED authVars
  /\ UNCHANGED <<nextSalt, hashes, lastVerify, minted, lastDecode, lastRequest, startVars>>

\* StorageService::delete
StorageDelete(file_id) ==
  /\ LET path == ResolvePath(blobs, file_id)
     IN IF path = NoName
        THEN /\ lastQuery' = [op |-> "delete", file_id |-> file_id,
                              result |-> Err(FileNotFound)]
             /\ UNCHANGED <<blobs, receipts>>
        ELSE \/ /\ blobs' = Remove(blobs, path)
                /\ receipts' = {m \in receipts : m.metadata.stored_name # path}
                /\ lastQuery' = [op |-> "delete", file_id |-> file_id, result |-> OkUnit]
             \/ /\ lastQuery' = [op |-> "delete", file_id |-> file_id,
                                 result |-> Err(IoError)]
                /\ UNCHANGED <<blobs, receipts>>
  /\ UNCHANGED <<files, calls, nextId>>
  /\ UNCHANGED authVars
  /\ UNCHANGED <<nextSalt, hashes, lastVerify, minted, lastDecode, lastRequest, startVars>>

\* StorageService::exists
StorageExists(file_id) ==
  /\ lastQuery' = [op |-> "exists", file_id |-> file_id,
                   result |-> OkBool(ResolvePath(blobs, file_id) # NoName)]
  /\ UNCHANGED <<storageVars, receipts>>
  /\ UNCHANGED authVars
  /\ UNCHANGED <<nextSalt, hashes, lastVerify, minted, lastDecode, lastRequest, startVars>>

\* StorageService::list_files: the entries of the base directory that are
\* files, in the order read_dir yields them.
StorageListFiles ==
  /\ \E names \in Enumerations(DOMAIN blobs) :
       lastQuery' = [op |-> "list_files", result |-> OkNames(names)]
  /\ UNCHANGED <<storageVars, receipts>>
  /\ UNCHANGED authVars
  /\ UNCHANGED <<nextSalt, hashes, lastVerify, minted, lastDecode, lastRequest, startVars>>

BlobNext ==
  \/ \E d \in Payloads, n \in DirectNames : StorageStore(d, n)
  \/ \E id \in FileIds : StorageRetrieve(id)
  \/ \E id \in FileIds : StorageDelete(id)
  \/ \E id \in FileIds : StorageExists(id)
  \/ StorageListFiles

\* ============================================== listing and statistics
\* A payload of 1024 bytes.
Kilobyte == [i \in 1..1024 |-> 1]

OkFiles(fs) == [kind |-> "Ok", files |-> fs]
OkStats(st) == [kind |-> "Ok", stats |-> st]
UserStorageStats(file_count, total_size) ==
  [file_count |-> file_count, total_size |-> total_size]

\* DateTime::parse_from_rfc3339(..).with_timezone(&Utc)
FromRfc3339(s) == s.rfc3339

\* File::to_values then File::from_row: created_at goes to the table as
\* RFC 3339 text and is parsed back.
FromRow(f) == [f EXCEPT !.created_at = FromRfc3339(ToRfc3339(f.created_at))]

\* ORDER BY created_at DESC, on the text the column holds.
NewestFirst(s) ==
  \A i, j \in 1..Len(s) :
    i < j => ~Rfc3339Less(ToRfc3339(s[i].created_at), ToRfc3339(s[j].created_at))

\* SUM(size)
RECURSIVE SumSize(_)
SumSize(rows) ==
  IF rows = {} THEN 0
  ELSE LET f == CHOOSE f \in rows : TRUE IN f.size + SumSize(rows \ {f})

\* Mutant: ORDER BY created_at ASC.
ListUserFilesOldestFirst(user_id) ==
  /\ \E s \in Enumerations({f \in files : f.user_id = user_id}) :
       /\ \A i, j \in 1..Len(s) :
            i < j => ~Rfc3339Less(ToRfc3339(s[j].created_at), ToRfc3339(s[i].created_at))
       /\ lastQuery' = [op |-> "list", user_id |-> user_id,
                        result |-> OkFiles([i \in 1..Len(s) |-> FromRow(s[i])]),
                        log |-> <<Db("select", TRUE)>>]
  /\ UNCHANGED <<storageVars, receipts>>
  /\ UNCHANGED authVars
  /\ UNCHANGED <<nextSalt, hashes, lastVerify, minted, lastDecode, lastRequest, startVars>>

\* list_user_files: SELECT * FROM files WHERE user_id = ? ORDER BY created_at
\* DESC; rows with equal created_at come in either order.
ListUserFiles(user_id) ==
  /\ \E s \in Enumerations({f \in files : f.user_id = user_id}) :
       /\ NewestFirst(s)
       /\ lastQuery' = [op |-> "list", user_id |-> user_id,
                        result |-> OkFiles([i \in 1..Len(s) |-> FromRow(s[i])]),
                        log |-> <<Db("select", TRUE)>>]
  /\ UNCHANGED <<storageVars, receipts>>
  /\ UNCHANGED authVars
  /\ UNCHANGED <<nextSalt, hashes, lastVerify, minted, lastDecode, lastRequest, startVars>>

\* Mutant: the statistics query without its WHERE clause.
GetUserStorageStatsAllRows(user_id) ==
  /\ lastQuery' = [op |-> "stats", user_id |-> user_id,
                   result |-> OkStats(UserStorageStats(Cardinality(files), SumSize(files))),
                   log |-> <<Db("select", TRUE)>>]
  /\ UNCHANGED <<storageVars, receipts>>
  /\ UNCHANGED authVars
  /\ UNCHANGED <<nextSalt, hashes, lastVerify, minted, lastDecode, lastRequest, startVars>>

\* get_user_storage_stats: SELECT COUNT(*), COALESCE(SUM(size), 0) FROM files
\* WHERE user_id = '<user_id>'. The id is put into the statement as a quoted
\* decimal literal, which the integer column compares as a number.
GetUserStorageStats(user_id) ==
  /\ LET literal == IdToString(user_id)
         rows == {f \in files : f.user_id = ParseId(literal)}
     IN lastQuery' = [op |-> "stats", user_id |-> user_id,
                      result |-> OkStats(UserStorageStats(Cardinality(rows), SumSize(rows))),
                      log |-> <<Db("select", TRUE)>>]
  /\ UNCHANGED <<storageVars, receipts>>
  /\ UNCHANGED authVars
  /\ UNCHANGED <<nextSalt, hashes, lastVerify, minted, lastDecode, lastRequest, startVars>>

Uploads == Payloads \cup {Kilobyte}
UploadNames == {n \in OriginalNames : n.ext # ""}

CatalogNext ==
  \/ \E c \in Calls, u \in Users, d \in Uploads, n \in UploadNames :
       StartStore(c, u, d, n)
  \/ \E c \in Calls : StoreCreate(c)
  \/ \E c \in Calls : StoreWrite(c)
  \/ \E c \in Calls : StoreInsert(c)
  \/ \E c \in Calls : StoreCompensate(c)
  \/ Tick(1)
  \/ \E u \in Users : ListUserFiles(u)
  \/ \E u \in Users : GetUserStorageStats(u)

\* ================================================================ HTTP API
MaxAccounts == 2

\* The Authorization header of a request: absent, or a scheme and credentials.
NoHeader == [scheme |-> "", credentials |-> NoToken]
Bearer(token) == [scheme |-> "Bearer", credentials |-> token]

\* The headers a client can send: none, another scheme, a string that is
\* no token of this server, a token login returned (by now perhaps expired),
\* and such a token re-signed without the secret to claim the Service role.
Headers ==
  {NoHeader, [scheme |-> "Basic", credentials |-> NoToken]}
    \cup {Bearer(t) : t \in issued \cup {NoToken}}
    \cup {Bearer([t EXCEPT !.key = "forged", !.role = "Service"]) : t \in issued}

Rejected(status, error) == [kind |-> "Rejected", status |-> status, error |-> error]

\* Mutant: the claims of the token are trusted without AuthService::validate.
ExtractUserFromTokenUnvalidated(header) ==
  IF header.scheme # "Bearer"
  THEN Rejected(401, "Missing or invalid Authorization header")
  ELSE LET user == FindUserById(ParseId(header.credentials.sub))
       IN IF user = NoUser THEN Rejected(401, "Invalid token") ELSE OkUser(user)

\* extract_user_from_token
ExtractUserFromToken(header) ==
  IF header.scheme # "Bearer"
  THEN Rejected(401, "Missing or invalid Authorization header")
  ELSE LET r == ValidateResult(header.credentials)
       IN IF r.kind = "Ok" THEN r ELSE Rejected(401, "Invalid token")

\* require_auth, up to next.run
RequireAuth(header) == ExtractUserFromToken(header)

\* require_service_role, up to next.run
RequireServiceRole(header) ==
  LET r == ExtractUserFromToken(header)
  IN IF r.kind = "Ok" /\ r.user.role # "Service"
     THEN Rejected(403, "Access denied. Service role required")
     ELSE r

\* router: the layer in front of each route.
RouteLayer(path) ==
  IF path \in {"/", "/auth/signup", "/auth/login"} THEN "public"
  ELSE IF path = "/auth/service" THEN "require_service_role"
  ELSE "require_auth"

\* The file routes, each with the statuses its handler returns.
FileRoutes ==
  { [method |-> "GET", path |-> "/files", statuses |-> {200, 500}],
    [method |-> "POST", path |-> "/files/upload", statuses |-> {201, 400, 500}],
    [method |-> "GET", path |-> "/files/stats", statuses |-> {200, 500}],
    [method |-> "GET", path |-> "/files/{id}", statuses |-> {200, 403, 404, 500}],
    [method |-> "DELETE", path |-> "/files/{id}", statuses |-> {200, 500}] }

\* The table names of /db/{table} requests.
TableNames == {"users", "Users", "posts", "files", "users;--"}

\* is_valid_table_name: a letter or underscore, then letters, digits and
\* underscores, at most 64 characters.
IsValidTableName(table) == table \in {"users", "Users", "posts", "files"}

ProtectedTables == {"users", "sessions", "migrations"}
IsProtectedTable(table) == table \in ProtectedTables

\* The table an unquoted name in a statement denotes: the database matches
\* table names without regard to case.
ResolveTable(table) == IF table = "Users" THEN "users" ELSE table

\* The rows a client can post to the users table: any email and role, with a
\* hash the client made itself.
PostedUsers ==
  {UserRow(0, e, HashPassword(p, 0), r) : e \in Emails, p \in Passwords, r \in Roles}

\* File::table_name: the table store_with_metadata inserts into.
FileTableName == "files"

\* A row a client can post to the files table: columns of its own choosing,
\* here an id and stored name no blob has and the id of another user as owner.
PostedFiles ==
  {File(1, 1, [stem |-> "report", ext |-> "txt"],
        StoredName(1, [stem |-> "report", ext |-> "txt"]), 1, 0)}

\* The JSON objects posted to a table.
PostedRows(table) ==
  IF ResolveTable(table) = FileTableName THEN PostedFiles ELSE PostedUsers

NoRequest ==
  [method |-> "", path |-> "", table |-> "", header |-> NoHeader, status |-> 0,
   principal |-> NoUser, handler_ran |-> FALSE]

ApiInit == lastRequest = NoRequest

\* A request answered without a change to the tables.
TurnedAway(request, rejection) ==
  /\ lastRequest' = [request EXCEPT !.status = rejection.status]
  /\ UNCHANGED <<users, nextUserId, nextSalt, issued, sessions>>

\* signup_with_role and then login, as the signup and create_service_account
\* handlers run them: 201 with the token, 400 when the signup fails.
CreateAccount(email, password, role, request) ==
  IF FindUserByEmail(email) # NoUser
  THEN /\ lastRequest' = [request EXCEPT !.status = 400]
       /\ UNCHANGED <<users, nextUserId, nextSalt, issued, sessions>>
  ELSE /\ nextSalt' = nextSalt + 1
       /\ \/ LET user == UserRow(nextUserId, email,
                                 HashPassword(password, SaltStringGenerate), role)
                 token == GenerateToken(IdToString(user.id), role, JwtSecret,
                                        TokenExpirySeconds, now)
                 session == SessionRow(user.id, token, now + TokenExpirySeconds)
             IN /\ users' = users \cup {user}
                /\ nextUserId' = nextUserId + 1
                /\ issued' = issued \cup {token}
                /\ \E written \in BOOLEAN :
                     /\ written => \A x \in sessions : x.token # token
                     /\ sessions' = IF written THEN sessions \cup {session} ELSE sessions
                /\ lastRequest' = [request EXCEPT !.status = 201]
          \/ /\ lastRequest' = [request EXCEPT !.status = 400]
             /\ UNCHANGED <<users, nextUserId, issued, sessions>>

\* POST /auth/signup
SignupRoute(email, password) ==
  /\ lastRequest = NoRequest
  /\ nextUserId <= 1 + MaxAccounts /\ nextSalt <= MaxAccounts
  /\ Cardinality(issued) < MaxTokens
  /\ CreateAccount(email, password, "User",
       [NoRequest EXCEPT !.method = "POST", !.path = "/auth/signup", !.handler_ran = TRUE])
  /\ UNCHANGED <<pending, now, ticks, lastValidate>>
  /\ UNCHANGED <<accountVars, storageVars>>
  /\ UNCHANGED <<hashes, lastVerify, minted, lastDecode, receipts, lastQuery, startVars>>

\* POST /auth/login
LoginRoute(email, password) ==
  /\ lastRequest = NoRequest
  /\ LET r == LoginOutcome(email, password)
         request == [NoRequest EXCEPT !.method = "POST", !.path = "/auth/login",
                                      !.handler_ran = TRUE]
     IN IF r.kind = "Err"
        THEN /\ lastRequest' = [request EXCEPT !.status = 401]
             /\ UNCHANGED <<issued, sessions>>
        ELSE /\ Cardinality(issued \cup {r.token}) <= MaxTokens
             /\ issued' = issued \cup {r.token}
             /\ \E written \in BOOLEAN :
                  /\ written => \A x \in sessions : x.token # r.token
                  /\ sessions' = IF written
                                 THEN sessions \cup
                                        {SessionRow(r.user.id, r.token, now + TokenExpirySeconds)}
                                 ELSE sessions
             /\ lastRequest' = [request EXCEPT !.status = 200]
  /\ UNCHANGED <<users, nextUserId, nextSalt, pending, now, ticks, lastValidate>>
  /\ UNCHANGED <<accountVars, storageVars>>
  /\ UNCHANGED <<hashes, lastVerify, minted, lastDecode, receipts, lastQuery, startVars>>

\* POST /auth/service: require_service_role, then create_service_account.
ServiceRoute(header, email, password) ==
  /\ lastRequest = NoRequest
  /\ nextUserId <= 1 + MaxAccounts /\ nextSalt <= MaxAccounts
  /\ Cardinality(issued) < MaxTokens
  /\ LET gate == RequireServiceRole(header)
         request == [NoRequest EXCEPT !.method = "POST", !.path = "/auth/service",
                                      !.header = header]
     IN IF gate.kind # "Ok" THEN TurnedAway(request, gate)
        ELSE IF gate.user.role # "Service"
        THEN TurnedAway([request EXCEPT !.principal = gate.user, !.handler_ran = TRUE],
                        Rejected(403, "Access denied"))
        ELSE CreateAccount(email, password, "Service",
               [request EXCEPT !.principal = gate.user, !.handler_ran = TRUE])
  /\ UNCHANGED <<pending, now, ticks, lastValidate>>
  /\ UNCHANGED <<accountVars, storageVars>>
  /\ UNCHANGED <<hashes, lastVerify, minted, lastDecode, receipts, lastQuery, startVars>>

\* GET /db/{table}: require_auth, then get_table.
DbGetRoute(header, table) ==
  /\ lastRequest = NoRequest
  /\ LET gate == RequireAuth(header)
         request == [NoRequest EXCEPT !.method = "GET", !.path = "/db/{table}",
                                      !.table = table, !.header = header]
         handled == [request EXCEPT !.principal = gate.user, !.handler_ran = TRUE]
     IN IF gate.kind # "Ok" THEN TurnedAway(request, gate)
        ELSE IF ~IsValidTableName(table)
        THEN TurnedAway(handled, Rejected(400, "Invalid table name"))
        ELSE IF IsProtectedTable(table) /\ gate.user.role # "Service"
        THEN TurnedAway(handled, Rejected(403, "Access denied to protected table"))
        ELSE TurnedAway(handled, [status |-> 200])
  /\ UNCHANGED <<pending, now, ticks, lastValidate>>
  /\ UNCHANGED <<accountVars, storageVars>>
  /\ UNCHANGED <<hashes, lastVerify, minted, lastDecode, receipts, lastQuery, startVars>>

\* POST /db/{table}: require_auth, then post_table. An INSERT that reaches
\* the users table or the files table adds the posted row (the primary key
\* of files refuses a second row with the id); the rows of other tables are
\* not part of this model.
DbPostRoute(header, table, row) ==
  /\ lastRequest = NoRequest
  /\ nextUserId <= 1 + MaxAccounts
  /\ LET gate == RequireAuth(header)
         request == [NoRequest EXCEPT !.method = "POST", !.path = "/db/{table}",
                                      !.table = table, !.header = header]
         handled == [request EXCEPT !.principal = gate.user, !.handler_ran = TRUE]
     IN IF gate.kind # "Ok" THEN TurnedAway(request, gate) /\ files' = files
        ELSE IF ~IsValidTableName(table)
        THEN TurnedAway(handled, Rejected(400, "Invalid table name")) /\ files' = files
        ELSE IF IsProtectedTable(table) /\ gate.user.role # "Service"
        THEN /\ TurnedAway(handled, Rejected(403, "Access denied to protected table"))
             /\ files' = files
        ELSE IF ResolveTable(table) = FileTableName
        THEN \/ /\ RowsWithId(row.id) = {}
                /\ files' = files \cup {row}
                /\ lastRequest' = [handled EXCEPT !.status = 201]
                /\ UNCHANGED <<users, nextUserId, nextSalt, issued, sessions>>
             \/ TurnedAway(handled, [status |-> 500]) /\ files' = files
        ELSE IF ResolveTable(table) # "users"
        THEN TurnedAway(handled, [status |-> 201]) /\ files' = files
        ELSE \/ /\ FindUserByEmail(row.email) = NoUser
                /\ users' = users \cup {[row EXCEPT !.id = nextUserId]}
                /\ nextUserId' = nextUserId + 1
                /\ lastRequest' = [handled EXCEPT !.status = 201]
                /\ UNCHANGED <<nextSalt, issued, sessions, files>>
             \/ TurnedAway(handled, [status |-> 500]) /\ files' = files
  /\ UNCHANGED <<pending, now, ticks, lastValidate>>
  /\ UNCHANGED <<accountVars, blobs, calls, nextId>>
  /\ UNCHANGED <<hashes, lastVerify, minted, lastDecode, receipts, lastQuery, startVars>>

\* The file routes: require_auth, then the handler, which passes the id of
\* the principal to the storage service (whose work the storage
\* specifications follow) and answers with one of its statuses.
FileRoute(route, header) ==
  /\ lastRequest = NoRequest
  /\ LET gate == RequireAuth(header)
         request == [NoRequest EXCEPT !.method = route.method, !.path = route.path,
                                      !.header = header]
     IN IF gate.kind # "Ok" THEN lastRequest' = [request EXCEPT !.status = gate.status]
        ELSE \E status \in route.statuses :
               lastRequest' = [request EXCEPT !.principal = gate.user,
                                              !.handler_ran = TRUE, !.status = status]
  /\ UNCHANGED <<users, nextUserId, nextSalt, issued, sessions>>
  /\ UNCHANGED <<pending, now, ticks, lastValidate>>
  /\ UNCHANGED <<accountVars, storageVars>>
  /\ UNCHANGED <<hashes, lastVerify, minted, lastDecode, receipts, lastQuery, startVars>>

\* The response leaves; the server takes the next request.
SendResponse ==
  /\ lastRequest # NoRequest
  /\ lastRequest' = NoRequest
  /\ UNCHANGED <<users, nextUserId, nextSalt, issued, sessions>>
  /\ UNCHANGED <<pending, now, ticks, lastValidate>>
  /\ UNCHANGED <<accountVars, storageVars>>
  /\ UNCHANGED <<hashes, lastVerify, minted, lastDecode, receipts, lastQuery, startVars>>

ApiNext ==
  \/ \E e \in Emails, p \in Passwords : SignupRoute(e, p)
  \/ \E e \in AllEmails, p \in AllPasswords : LoginRoute(e, p)
  \/ \E h \in Headers, e \in Emails, p \in Passwords : ServiceRoute(h, e, p)
  \/ \E h \in Headers, t \in TableNames : DbGetRoute(h, t)
  \/ \E h \in Headers, t \in TableNames : \E row \in PostedRows(t) : DbPostRoute(h, t, row)
  \/ \E route \in FileRoutes, h \in Headers : FileRoute(route, h)
  \/ ticks = 0 /\ lastRequest = NoRequest /\ Tick(TokenExpirySeconds + 1)
  \/ SendResponse

\* ===================================== signup on a backend without RETURNING
\* The errors of the read-back.
LastInsertIdError ==
  [variant |-> "TokenGenerationError", msg |-> "Failed to get last insert ID"]
FetchCreatedError ==
  [variant |-> "TokenGenerationError", msg |-> "Failed to fetch created user"]

\* signup_with_role, MySQL branch: backend.execute of the INSERT. The table
\* gives the row its id, which is from then on what LAST_INSERT_ID() answers
\* on the connection.
SignupExecute(c) ==
  /\ signups[c].pc = "insert"
  /\ nextSalt' = nextSalt + 1
  /\ LET user == UserRow(nextUserId, signups[c].email,
                         HashPassword(signups[c].password, SaltStringGenerate), signups[c].role)
     IN \/ /\ FindUserByEmail(signups[c].email) = NoUser
           /\ users' = users \cup {user}
           /\ nextUserId' = nextUserId + 1
           /\ lastInsertId' = nextUserId
           /\ signups' = [signups EXCEPT ![c].pc = "last_id"]
        \/ /\ signups' = [signups EXCEPT ![c].pc = "done", ![c].result = Err(InsertError)]
           /\ UNCHANGED <<users, nextUserId, lastInsertId>>
  /\ UNCHANGED <<sessions, pending, issued, now, ticks, lastValidate, lastCall>>
  /\ UNCHANGED storageVars
  /\ UNCHANGED <<hashes, lastVerify, minted, lastDecode, receipts, lastQuery,
                 lastRequest, tables, boot>>

\* signup_with_role, MySQL branch: SELECT LAST_INSERT_ID() as id, a second
\* statement, which may fail.
SignupLastInsertId(c) ==
  /\ signups[c].pc = "last_id"
  /\ \/ signups' = [signups EXCEPT ![c].pc = "fetch", ![c].id = lastInsertId]
     \/ signups' = [signups EXCEPT ![c].pc = "done",
                                   ![c].result = Err(LastInsertIdError)]
  /\ UNCHANGED <<users, nextUserId, sessions, pending, issued, now, ticks,
                 lastValidate, lastCall>>
  /\ UNCHANGED storageVars
  /\ UNCHANGED <<nextSalt, sideVars>>

\* signup_with_role, MySQL branch: find_user_by_id(id), a third statement,
\* which may fail or find no row; the row found is returned.
SignupFetch(c) ==
  /\ signups[c].pc = "fetch"
  /\ LET user == FindUserById(signups[c].id)
     IN \/ signups' = [signups EXCEPT ![c].pc = "done",
              ![c].result = IF user = NoUser THEN Err(FetchCreatedError) ELSE OkUser(user)]
        \/ signups' = [signups EXCEPT ![c].pc = "done", ![c].result = Err(DatabaseError)]
  /\ UNCHANGED <<users, nextUserId, sessions, pending, issued, now, ticks,
                 lastValidate, lastCall>>
  /\ UNCHANGED storageVars
  /\ UNCHANGED <<nextSalt, sideVars>>

\* Signups against a MySQL database.
MysqlNext ==
  \/ \E c \in SignupCalls, e \in Emails, p \in Passwords, r \in Roles :
       SignupStart(c, e, p, r)
  \/ \E c \in SignupCalls : SignupExecute(c)
  \/ \E c \in SignupCalls : SignupLastInsertId(c)
  \/ \E c \in SignupCalls : SignupFetch(c)

\* ================================================================= startup
\* The tables the migrations of run_migrations create, in the order added.
Migrations == <<"users", "sessions", "posts">>

\* The process has not started; the database is empty and nothing is stored.
StartupInit ==
  /\ StorageInit /\ AccountInit /\ BlobInit /\ ApiInit
  /\ users = {} /\ nextUserId = 1 /\ sessions = {} /\ pending = {} /\ issued = {}
  /\ now = 0 /\ ticks = 0
  /\ lastValidate = [token |-> NoToken, result |-> Pending]
  /\ nextSalt = 0 /\ hashes = <<>> /\ minted = {}
  /\ lastVerify = [password |-> "", entry |-> NoHash, result |-> FALSE]
  /\ lastDecode = [mint |-> NoMint, secret |-> "", at |-> 0, result |-> Pending]
  /\ tables = {} /\ boot = "migrate" /\ lastInsertId = 0

\* main, run_migrations(..).expect(..): run_pending applies the migrations in
\* order; when one fails the process panics, with the tables made so far.
RunMigrations ==
  /\ boot = "migrate"
  /\ \E k \in 0..Len(Migrations) :
       /\ tables' = tables \cup {Migrations[i] : i \in 1..k}
       /\ boot' = IF k = Len(Migrations) THEN "seed" ELSE "exited"
  /\ UNCHANGED <<storageVars, authVars>>
  /\ UNCHANGED <<nextSalt, hashes, lastVerify, minted, lastDecode, receipts, lastQuery,
                 lastRequest, lastInsertId>>

\* main, seed_database(..).expect(..): with no service account in the users
\* table, signup_with_role creates the default one; a failure is a panic.
SeedDatabase ==
  /\ boot = "seed"
  /\ IF \E u \in users : u.role = "Service"
     THEN /\ boot' = "seeded"
          /\ UNCHANGED <<users, nextUserId, nextSalt>>
     ELSE /\ nextSalt' = nextSalt + 1
          /\ \/ /\ users' = users \cup
                     {UserRow(nextUserId, "admin@projectkit.local",
                              HashPassword("admin123", SaltStringGenerate), "Service")}
                /\ nextUserId' = nextUserId + 1
                /\ boot' = "seeded"
             \/ /\ boot' = "exited"
                /\ UNCHANGED <<users, nextUserId>>
  /\ UNCHANGED <<sessions, pending, issued, now, ticks, lastValidate>>
  /\ UNCHANGED <<accountVars, storageVars>>
  /\ UNCHANGED <<hashes, lastVerify, minted, lastDecode, receipts, lastQuery,
                 lastRequest, tables, lastInsertId>>

\* main, from StorageService::new to axum::serve: the base directory is made,
\* the services are built and the listener is bound, or the process panics.
Serve ==
  /\ boot = "seeded"
  /\ boot' \in {"serving", "exited"}
  /\ UNCHANGED <<storageVars, authVars>>
  /\ UNCHANGED <<nextSalt, hashes, lastVerify, minted, lastDecode, receipts, lastQuery,
                 lastRequest, tables, lastInsertId>>

\* Startup, then store requests.
StartupNext ==
  \/ RunMigrations
  \/ SeedDatabase
  \/ Serve
  \/ \E c \in Calls, u \in Users, d \in Payloads, n \in OriginalNames :
       boot = "serving" /\ StartStore(c, u, d, n)
  \/ \E c \in Calls : StoreCreate(c)
  \/ \E c \in Calls : StoreWrite(c)
  \/ \E c \in Calls : StoreInsert(c)
  \/ \E c \in Calls : StoreCompensate(c)

\* The server is up on a database that has every table the services use;
\* the files table is not made by the program and was made beforehand.
Serving ==
  /\ tables = {"users", "sessions", "posts", "files"}
  /\ boot = "serving"
  /\ lastInsertId = 0

Init ==
  StorageInit /\ AuthInit /\ AccountInit /\ CryptoInit /\ BlobInit /\ ApiInit /\ Serving

Spec == Init /\ [][StorageNext]_vars

AuthSpec == Init /\ [][AuthNext]_vars

AccountSpec == Init /\ [][AccountNext]_vars

CryptoSpec == Init /\ [][CryptoNext]_vars

BlobSpec == Init /\ [][BlobNext]_vars

CatalogSpec == Init /\ [][CatalogNext]_vars

ApiSpec == Init /\ [][ApiNext]_vars

StartupSpec == StartupInit /\ [][StartupNext]_vars

MysqlSpec == Init /\ [][MysqlNext]_vars

RaceSpec == Init /\ [][RaceNext]_vars

SubjectSpec == Init /\ [][SubjectNext]_vars

\* ================================================================ claims
\* The spec's error categories, as the code returns them.
IsPersistence(r) ==
  r.kind = "Err" /\ r.err.variant = "StorageError"
  /\ r.err.msg \in {"Database insert failed", "Database delete failed"}
IsForbidden(r) == r = Err(AccessDenied)
IsNotFound(r) == r = Err(FileNotFound)

StoreCalls == {c \in Calls : calls[c].op = "store" /\ calls[c].pc # "killed"}
Returned(c) == calls[c].pc = "done"
\* Call c takes the step that makes it return.
Returns(c) == calls[c].pc \notin {"done", "killed"} /\ calls'[c].pc = "done"

C2_AllOrNothing ==
  [][\A c \in Calls :
       (calls[c].op = "store" /\ Returns(c)) =>
         LET rows == {f \in files' : f.id = calls[c].id}
         IN /\ calls'[c].result.kind = "Ok" =>
                 (calls[c].stored \in DOMAIN blobs' /\ rows # {})
            /\ calls'[c].result.kind = "Err" =>
                 (calls[c].stored \notin DOMAIN blobs' /\ rows = {})]_vars

\* C3: in every reachable state, crashes included, every row of the files
\* table has its blob on the filesystem.
C3_NoDanglingMetadata ==
  \A f \in files : f.stored_name \in DOMAIN blobs

\* A crash inside delete, after the row went and before the blob did, with
\* another file still stored: an orphan blob next to a sound pair.
C3_Witness ==
  /\ \E c \in Calls : calls[c].op = "delete" /\ calls[c].pc = "killed"
  /\ \E n \in DOMAIN blobs : \A f \in files : f.stored_name # n
  /\ files # {}

\* C4: a retrieve that finds the row of another owner returns Forbidden and
\* has made no filesystem access.
C4_ForbiddenBeforeRead ==
  \A c \in Calls :
    (calls[c].op = "retrieve" /\ Returned(c)
       /\ calls[c].row # NoFile /\ calls[c].row.user_id # calls[c].user) =>
      /\ IsForbidden(calls[c].result)
      /\ ~TouchedFs(c)

C4_Witness ==
  \E c \in Calls :
    /\ calls[c].op = "retrieve" /\ Returned(c)
    /\ calls[c].row # NoFile /\ calls[c].row.user_id # calls[c].user
    /\ calls[c].row.stored_name \in DOMAIN blobs

\* C5: no step of a delete call whose requester is not the owner of the file
\* changes the files table or the filesystem, and the call returns Forbidden.
C5_NonOwnerDeleteNoEffect ==
  [][\A c \in Calls :
       (/\ calls'[c].op = "delete" /\ calls'[c] # calls[c]
        /\ \E f \in files : f.id = calls'[c].id /\ f.user_id # calls'[c].user) =>
         /\ files' = files
         /\ blobs' = blobs
         /\ Returns(c) => IsForbidden(calls'[c].result)]_vars

C5_Witness ==
  \E c \in Calls :
    /\ calls[c].op = "delete" /\ Returned(c) /\ IsForbidden(calls[c].result)
    /\ \E f \in files : f.id = calls[c].id /\ f.stored_name \in DOMAIN blobs

\* A delete of id has taken its row away (whether or not it went on to return).
DeleteIntervened(id) ==
  \E d \in Calls :
    calls[d].op = "delete" /\ calls[d].id = id /\ Did(d, Db("delete", TRUE))

\* C6: once store has returned a File, a retrieve of its id by the owner
\* returns exactly the stored payload, unless a delete of that id intervenes.
C6_RoundTrip ==
  [][\A c, s \in Calls :
       (/\ calls[c].op = "retrieve" /\ Returns(c)
        /\ calls[s].op = "store" /\ Returned(s) /\ calls[s].result.kind = "Ok"
        /\ calls[c].id = calls[s].result.file.id /\ calls[c].user = calls[s].user
        /\ ~DeleteIntervened(calls[c].id)) =>
         calls'[c].result = OkBytes(calls[s].data)]_vars

C6_Witness ==
  \E c, s \in Calls :
    /\ calls[c].op = "retrieve" /\ Returned(c)
    /\ calls[s].op = "store" /\ Returned(s)
    /\ calls[c].id = calls[s].id
    /\ calls[s].data = <<>>
    /\ calls[c].result = OkBytes(<<>>)

\* A delete that has returned after its DELETE took the row away.
DeleteReturned(d) ==
  calls[d].op = "delete" /\ Returned(d) /\ Did(d, Db("delete", TRUE))

\* C7: once a delete of an id has returned with the row gone, whether or not
\* it removed the blob, every retrieve of that id that looks the row up
\* afterwards returns NotFound, whoever asks.
C7_NotFoundAfterDelete ==
  [][\A c, d \in Calls :
       (/\ calls[c].op = "retrieve" /\ calls[c].pc = "lookup"
        /\ calls'[c].pc \notin {"lookup", "killed"}
        /\ DeleteReturned(d) /\ calls[d].id = calls[c].id) =>
         (calls'[c].pc = "done" /\ IsNotFound(calls'[c].result))]_vars

C7_Witness ==
  \E c, d \in Calls :
    /\ DeleteReturned(d) /\ calls[d].result = Err(IoError)
    /\ calls[d].row.stored_name \in DOMAIN blobs
    /\ calls[c].op = "retrieve" /\ Returned(c) /\ calls[c].id = calls[d].id
    /\ IsNotFound(calls[c].result)

\* C8: a delete whose DELETE succeeded and whose removal of the blob then
\* failed still returns Ok.
C8_CleanupFailureSwallowed ==
  \A c \in Calls :
    (calls[c].op = "delete" /\ Returned(c)
       /\ Did(c, Db("delete", TRUE)) /\ Did(c, Fs("remove", FALSE))) =>
      calls[c].result = OkUnit

\* The rows and the blob of a store call that has written its payload.
Wrote(c) == calls[c].pc \in {"insert", "compensate"} \/ calls[c].result.kind = "Ok"

\* C9: store calls, concurrent or not, get pairwise distinct ids and stored
\* names; the blob of each holds its own payload, until a delete removes it,
\* and the row of an id is the one its own call wrote.
C9_NoCollision ==
  /\ \A c, d \in StoreCalls :
       c # d => (calls[c].id # calls[d].id /\ calls[c].stored # calls[d].stored)
  /\ \A c \in StoreCalls :
       (Wrote(c) /\ calls[c].stored \in DOMAIN blobs) =>
         blobs[calls[c].stored] = calls[c].data
  /\ \A c \in StoreCalls : \A f \in RowsWithId(calls[c].id) :
       f = File(calls[c].id, calls[c].user, calls[c].name, calls[c].stored,
                Len(calls[c].data), f.created_at)

\* Two stores in flight at once with different payloads, both written.
C9_Witness ==
  \E c, d \in StoreCalls :
    /\ c # d /\ calls[c].data # calls[d].data
    /\ calls[c].pc = "insert" /\ calls[d].pc = "insert"

\* C10: a validate never accepts a token whose embedded role differs from the
\* live role of its subject; for a correctly signed, unexpired token of an
\* existing user whose role has changed it fails with RoleChanged.
C10_RoleRecheck ==
  [][lastValidate' # lastValidate =>
       LET t == lastValidate'.token
           r == lastValidate'.result
           user == FindUserById(ParseId(t.sub))
       IN /\ r.kind = "Ok" => (user # NoUser /\ user.role = t.role /\ r.user = user)
          /\ (t.key = JwtSecret /\ now <= t.exp /\ user # NoUser /\ user.role # t.role)
               => r = Err(RoleChanged)]_vars

C10_Witness ==
  /\ lastValidate.result = Err(RoleChanged)
  /\ lastValidate.token \in issued
  /\ now <= lastValidate.token.exp
  /\ now > lastValidate.token.iat
\* C11: validate fails for every token whose expiry lies before the current
\* time, whatever its signature and whatever the tables hold; a token is
\* accepted up to now = exp and no longer.
C11_ExpiredNeverValidates ==
  \A t \in Presentable : t.exp < now => ValidateResult(t).kind = "Err"

\* A validate of a correctly signed token, one second past its expiry.
C11_Witness ==
  /\ lastValidate.token \in issued
  /\ lastValidate.token.exp < now
  /\ now - lastValidate.token.exp <= Leeway
  /\ lastValidate.result = Err(TokenExpired)

\* A login step: the call that lastCall' records.
LoginReturns == lastCall' # lastCall /\ lastCall'.op = "login"

\* C12: login answers an unknown email and a wrong password of a known email
\* with the same error, and the boundary with the same response.
C12_NoUserOracle ==
  /\ \A e1, e2 \in AllEmails, p1, p2 \in AllPasswords :
       (/\ FindUserByEmail(e1) = NoUser
        /\ FindUserByEmail(e2) # NoUser
        /\ ~VerifyPassword(p2, FindUserByEmail(e2).password_hash)) =>
         /\ LoginOutcome(e1, p1) = LoginOutcome(e2, p2)
         /\ LoginRejection(LoginOutcome(e1, p1).err) = LoginRejection(LoginOutcome(e2, p2).err)
  /\ (lastCall.op = "login" /\ lastCall.result.kind = "Err") =>
       lastCall.result = Err(InvalidPassword)

\* A login with the wrong password of a user who signed up, while another
\* email is still unknown.
C12_Witness ==
  /\ lastCall.op = "login" /\ lastCall.result = Err(InvalidPassword)
  /\ \E c \in SignupCalls :
       /\ signups[c].result.kind = "Ok"
       /\ signups[c].email = lastCall.email
       /\ signups[c].password # lastCall.password
  /\ \E e \in AllEmails : FindUserByEmail(e) = NoUser

\* C13: a login with correct credentials returns the token and the user
\* whether or not the session row was written, and the token validates.
C13_SessionWriteNotSurfaced ==
  [][LoginReturns =>
       LET user == FindUserByEmail(lastCall'.email)
       IN (user # NoUser /\ VerifyPassword(lastCall'.password, user.password_hash)) =>
            /\ lastCall'.result.kind = "Ok"
            /\ lastCall'.result.user = user
            /\ lastCall'.result.token \in issued'
            /\ \A t \in issued' :
                 t = lastCall'.result.token => ValidateResult(t)' = OkUser(user)]_vars

C13_Witness ==
  /\ lastCall.op = "login" /\ lastCall.result.kind = "Ok"
  /\ ~lastCall.session_written
  /\ \A x \in sessions : x.token # lastCall.result.token
  /\ ValidateResult(lastCall.result.token) = OkUser(lastCall.result.user)

\* C14: a signup that returned a user left a row with the email and role
\* User; a login with the same email and password then succeeds and its
\* token validates to a user with that email and role User.
C14_SignupLoginValidate ==
  [][/\ \A c \in SignupCalls :
          signups'[c].result.kind = "Ok" =>
            /\ signups'[c].result.user \in users'
            /\ signups'[c].result.user.email = signups'[c].email
            /\ signups'[c].result.user.role = "User"
     /\ \A c \in SignupCalls :
          (/\ LoginReturns /\ signups[c].result.kind = "Ok"
           /\ signups[c].email = lastCall'.email
           /\ signups[c].password = lastCall'.password) =>
            /\ lastCall'.result.kind = "Ok"
            /\ lastCall'.result.user = signups[c].result.user
            /\ \A t \in issued' :
                 t = lastCall'.result.token =>
                   /\ ValidateResult(t)'.kind = "Ok"
                   /\ ValidateResult(t)'.user.email = signups[c].email
                   /\ ValidateResult(t)'.user.role = "User"]_vars

C14_Witness ==
  \E c \in SignupCalls :
    /\ signups[c].result.kind = "Ok"
    /\ lastCall.op = "login" /\ lastCall.email = signups[c].email
    /\ lastCall.result.kind = "Ok"
    /\ lastCall.result.token.iat < now
    /\ ValidateResult(lastCall.result.token).kind = "Ok"

\* C15: a signup with an email that is already registered returns an error
\* that is neither the error of a failed store operation nor the error of a
\* failed token check, and leaves the users table as it was.
C15_ConflictDistinct ==
  \A c \in SignupCalls :
    signups[c].result = Err(UserAlreadyExists) =>
      /\ signups[c].result.err.variant # DatabaseError.variant
      /\ signups[c].result.err.variant # DecodeError("InvalidSignature").variant
      /\ \E u \in users : u.email = signups[c].email

\* C16: at most one user row per email in every state; of the signup calls
\* for one email at most one returns a user, however they interleave.
C16_EmailUnique ==
  /\ \A u1, u2 \in users : u1.email = u2.email => u1 = u2
  /\ \A c, d \in SignupCalls :
       (c # d /\ signups[c].email = signups[d].email
          /\ signups[c].result.kind = "Ok") => signups[d].result.kind # "Ok"

\* Two signups for one email, both past the pre-read; one has its row.
C16_Witness ==
  \E c, d \in SignupCalls :
    /\ c # d /\ signups[c].email = signups[d].email
    /\ signups[c].result.kind = "Ok"
    /\ signups[d].pc = "insert"

\* C17: validate, and the rejection the boundary sends, are the same for an
\* expired token and for a token with a tampered or wrongly keyed signature.
C17_SameRejection ==
  \A t1, t2 \in Presentable :
    (t1.key = JwtSecret /\ t1.exp < now /\ t2.key # JwtSecret) =>
      /\ ValidateResult(t1) = ValidateResult(t2)
      /\ AuthRejection(ValidateResult(t1).err) = AuthRejection(ValidateResult(t2).err)
\* C18: a logout that returns Ok has removed the session rows with its token
\* and no other row, and it revokes nothing: validate of the token returns
\* after the logout what it returned before.
C18_LogoutOnlyRemovesSession ==
  [][(lastCall' # lastCall /\ lastCall'.op = "logout") =>
       /\ lastCall'.result = OkUnit =>
            sessions' = {x \in sessions : x.token # lastCall'.token}
       /\ lastCall'.result # OkUnit => sessions' = sessions
       /\ \A t \in issued \cup {NoToken} :
            t = lastCall'.token => ValidateResult(t)' = ValidateResult(t)]_vars

C18_Witness ==
  /\ lastCall.op = "logout" /\ lastCall.result = OkUnit
  /\ lastCall.token \in issued
  /\ \A x \in sessions : x.token # lastCall.token
  /\ sessions # {}
  /\ ValidateResult(lastCall.token).kind = "Ok"

\* C19: a cleanup that returns Ok has deleted exactly the session rows with
\* expires_at < now, kept those with expires_at >= now, returned the number
\* of rows deleted, and changed no user row.
C19_CleanupExact ==
  [][(lastCall' # lastCall /\ lastCall'.op = "cleanup" /\ lastCall'.result.kind = "Ok") =>
       /\ sessions' = {x \in sessions : x.expires_at.rfc3339 >= now}
       /\ lastCall'.result.rows_affected =
            Cardinality({x \in sessions : x.expires_at.rfc3339 < now})
       /\ users' = users]_vars

\* A cleanup that deleted one row and kept the one expiring at this instant.
C19_Witness ==
  /\ lastCall.op = "cleanup" /\ lastCall.result = OkCount(1)
  /\ \E x \in sessions : x.expires_at.rfc3339 = now

\* C20: what validate returns does not depend on the sessions table: no step
\* that leaves the users table and the clock alone changes the result of
\* validate for any token.
C20_SessionsNotConsulted ==
  [][(users' = users /\ now' = now) =>
       \A t \in Presentable : ValidateResult(t)' = ValidateResult(t)]_vars

\* Two tokens, one with its session row and one whose row was never written.
C20_Witness ==
  \E t1, t2 \in issued :
    /\ \E x \in sessions : x.token = t1
    /\ \A x \in sessions : x.token # t2
    /\ ValidateResult(t1).kind = "Ok" /\ ValidateResult(t2).kind = "Ok"
    /\ lastCall.op = "login" /\ ~lastCall.session_written
\* C29: a store whose filesystem step failed (create, write or flush) has
\* attempted no metadata insert and has left no file, complete or partial.
C29_FailedWriteLeavesNothing ==
  \A c \in StoreCalls :
    (Returned(c) /\ (Did(c, Fs("create", FALSE)) \/ Did(c, Fs("write", FALSE)))) =>
      /\ ~Did(c, Db("insert", TRUE)) /\ ~Did(c, Db("insert", FALSE))
      /\ calls[c].stored \notin DOMAIN blobs

\* C30: delete checks ownership, then deletes the row, then the blob: a row
\* is deleted only for its owner, no blob is removed while a row names it,
\* and a failed row delete returns a Persistence error with the row and the
\* blob as they were.
C30_DeleteOrder ==
  [][/\ \A n \in DOMAIN blobs \ DOMAIN blobs' : \A f \in files : f.stored_name # n
     /\ \A c \in Calls :
          (calls[c].op = "delete" /\ calls'[c] # calls[c] /\ calls'[c].pc # "killed") =>
            /\ files' # files =>
                 (calls[c].row # NoFile /\ calls[c].row.user_id = calls[c].user)
            /\ blobs' # blobs =>
                 (Did(c, Db("delete", TRUE)) /\ RowsWithId(calls[c].id) = {})
            /\ (calls[c].pc = "dbdelete" /\ calls'[c].pc = "done") =>
                 /\ IsPersistence(calls'[c].result)
                 /\ files' = files /\ blobs' = blobs]_vars

\* A delete by the owner whose row delete failed: row and blob still there.
C30_Witness ==
  \E c \in Calls :
    /\ calls[c].op = "delete" /\ Returned(c)
    /\ calls[c].result = Err(DeleteFailed)
    /\ calls[c].row \in files
    /\ calls[c].row.stored_name \in DOMAIN blobs
\* C25: a hash verifies the password it was made from and no other password,
\* and two hash_password calls, of the same password or not, return
\* different hashes.
C25_HashVerify ==
  /\ \A i \in DOMAIN hashes : \A w \in AllPasswords :
       VerifyPassword(w, hashes[i].hash) <=> (w = hashes[i].password)
  /\ \A i, j \in DOMAIN hashes : i # j => hashes[i].hash # hashes[j].hash
  /\ lastVerify.entry # NoHash =>
       (lastVerify.result <=> (lastVerify.password = lastVerify.entry.password))

\* The same password hashed twice, and a wrong password tried on the second.
C25_Witness ==
  /\ Len(hashes) = 2 /\ hashes[1].password = hashes[2].password
  /\ lastVerify.entry = hashes[2]
  /\ lastVerify.password # hashes[2].password
  /\ ~lastVerify.result

\* C26: a token generated with a positive lifetime and validated under the
\* same secret before it expires yields claims with the subject and the role
\* it was generated for and exp > iat; under any other secret it yields an
\* error.
C26_TokenRoundTrip ==
  LET m == lastDecode.mint
      r == lastDecode.result
  IN (m # NoMint /\ m.expires_in_seconds > 0) =>
       /\ (lastDecode.secret = m.secret /\ lastDecode.at <= m.token.exp) =>
            /\ r.kind = "Ok"
            /\ r.claims.sub = m.sub /\ r.claims.role = m.role
            /\ r.claims.exp > r.claims.iat
       /\ lastDecode.secret # m.secret => r.kind = "Err"

\* A Service token for user 1 validated under the secret that signed it.
C26_Witness ==
  /\ lastDecode.mint # NoMint /\ lastDecode.mint.expires_in_seconds > 0
  /\ lastDecode.secret = lastDecode.mint.secret
  /\ lastDecode.result.kind = "Ok"
  /\ lastDecode.mint.sub = IdToString(1)
  /\ lastDecode.mint.role = "Service"
\* C27: retrieve called with the id store returned gives back exactly the
\* payload that was stored, whatever the original file name, and the metadata
\* store returned has the payload's length and the given original name.
C27_StoreRetrieve ==
  [][/\ \A m \in receipts' :
          /\ m.metadata.size = Len(m.data)
          /\ m.metadata.original_name = m.original_name
     /\ (lastQuery' # lastQuery /\ lastQuery'.op = "retrieve") =>
          \A m \in receipts :
            lastQuery'.file_id = BareId(m.metadata.id) =>
              lastQuery'.result = OkBytes(m.data)]_vars

\* C28: exists(id) is true for every file store returned and delete has not
\* removed and false for every other id, and list_files returns each such
\* file once and nothing else.
C28_ExistsAndList ==
  [][lastQuery' # lastQuery =>
       /\ lastQuery'.op = "exists" =>
            \A i \in 1..(nextId - 1) :
              lastQuery'.file_id = BareId(i) =>
                (lastQuery'.result.value <=> \E m \in receipts : m.metadata.id = i)
       /\ lastQuery'.op = "list_files" =>
            LET names == lastQuery'.result.names
            IN /\ Len(names) = Cardinality(receipts)
               /\ {names[i] : i \in 1..Len(names)}
                    = {m.metadata.stored_name : m \in receipts}]_vars
\* C23: the statistics of an owner are the number of the rows of that owner
\* and the sum of their sizes, 0 and 0 when there is none; the call reads the
\* table and nothing else; one row of 1024 bytes gives 1 and 1024.
C23_StatsExact ==
  [][(lastQuery' # lastQuery /\ lastQuery'.op = "stats") =>
       LET rows == {f \in files : f.user_id = lastQuery'.user_id}
           st == lastQuery'.result.stats
       IN /\ st.file_count = Cardinality(rows)
          /\ st.total_size = SumSize(rows)
          /\ rows = {} => (st.file_count = 0 /\ st.total_size = 0)
          /\ \A f \in rows : rows = {f} => (st.file_count = 1 /\ st.total_size = f.size)
          /\ (\E f \in rows : rows = {f} /\ f.size = 1024) =>
               (st.file_count = 1 /\ st.total_size = 1024)
          /\ lastQuery'.log = <<Db("select", TRUE)>>
          /\ blobs' = blobs /\ files' = files]_vars

\* The statistics of an owner after their single upload of 1024 bytes, with a
\* file of another owner in the table.
C23_Witness ==
  /\ lastQuery.op = "stats"
  /\ lastQuery.result.stats = UserStorageStats(1, 1024)
  /\ \E f \in files : f.user_id # lastQuery.user_id
  /\ \E f \in files : f.user_id = lastQuery.user_id /\ f.size = 1024

\* C24: the list of an owner holds the rows of that owner, each once and no
\* other record, from the newest created_at to the oldest.
C24_ListExact ==
  [][(lastQuery' # lastQuery /\ lastQuery'.op = "list") =>
       LET rows == {f \in files : f.user_id = lastQuery'.user_id}
           s == lastQuery'.result.files
       IN /\ {s[i] : i \in 1..Len(s)} = rows
          /\ Len(s) = Cardinality(rows)
          /\ \A i, j \in 1..Len(s) : i < j => s[i].created_at >= s[j].created_at]_vars

\* A list of two files of one owner, uploaded at different times.
C24_Witness ==
  /\ lastQuery.op = "list"
  /\ Len(lastQuery.result.files) = 2
  /\ lastQuery.result.files[1].created_at > lastQuery.result.files[2].created_at
\* C21: on a protected route the handler runs only for a request whose bearer
\* token validate accepted, with the user validate returned; a request whose
\* token is missing, malformed or invalid is answered 401 and changes nothing;
\* a valid token of a user without the role the route or the table requires
\* is answered 403 and changes nothing.
C21_GateBeforeHandler ==
  [][(lastRequest' # lastRequest /\ lastRequest' # NoRequest
        /\ RouteLayer(lastRequest'.path) # "public") =>
       LET q == lastRequest'
           v == IF q.header.scheme = "Bearer"
                THEN ValidateResult(q.header.credentials) ELSE Err(InvalidToken)
           same == /\ users' = users /\ sessions' = sessions /\ issued' = issued
       IN /\ q.handler_ran => (v.kind = "Ok" /\ q.principal = v.user)
          /\ v.kind = "Err" => (q.status = 401 /\ ~q.handler_ran /\ same)
          /\ (v.kind = "Ok" /\ v.user.role # "Service"
                /\ RouteLayer(q.path) = "require_service_role") =>
               (q.status = 403 /\ ~q.handler_ran /\ same)
          /\ (v.kind = "Ok" /\ v.user.role # "Service"
                /\ q.path = "/db/{table}" /\ IsProtectedTable(q.table)) =>
               (q.status = 403 /\ same)]_vars

\* A User-role token, valid, turned away from the service route with 403.
C21_Witness ==
  /\ lastRequest.path = "/auth/service"
  /\ lastRequest.status = 403
  /\ lastRequest.header.scheme = "Bearer"
  /\ lastRequest.header.credentials \in issued
  /\ ValidateResult(lastRequest.header.credentials).kind = "Ok"

\* C22: a request that adds a user row with role Service was made by a
\* principal validated with role Service, and the signup route adds rows of
\* role User only.
C22_ServiceOnlyByService ==
  [][\A u \in users' \ users :
       /\ u.role = "Service" =>
            (lastRequest'.principal # NoUser /\ lastRequest'.principal.role = "Service")
       /\ lastRequest'.path = "/auth/signup" => u.role = "User"]_vars
\* C33: once the startup migrations have run on an empty database, the tables
\* users, sessions and files exist, so that the INSERT of a store call issued
\* right after startup has a table to go to.
C33_TablesAfterMigrations ==
  boot \in {"seed", "seeded", "serving"} =>
    {"users", "sessions", FileTableName} \subseteq tables
\* C31: rows of the files table are created only by store and removed only by
\* delete of the transactional object service: no step of a handler that a
\* User-role principal can reach (the passthrough POST /db/{table} among
\* them) adds, removes or alters a files row, so every row the API leaves in
\* the table has its blob under the base directory.
C31_FilesRowsOnlyByStore ==
  [][/\ (files' # files /\ lastRequest'.principal.role = "User") =>
          lastRequest'.path # "/db/{table}"
     /\ \A f \in files' \ files :
          /\ f.stored_name \in DOMAIN blobs'
          /\ f.user_id = lastRequest'.principal.id]_vars
\* C32: without a crash, each blob under the base directory has exactly one
\* metadata record and each record names a blob of its own, and the user_id
\* of a record stays what store gave it until delete removes the record.
\* Read at the states where no request is in flight (while a store or a
\* delete runs, one of the two is there without the other by design).
C32_OneRecordPerBlob ==
  [][/\ (InFlight' = {} /\ \A c \in Calls : calls'[c].pc # "killed") =>
          \A n \in DOMAIN blobs' : Cardinality({f \in files' : f.stored_name = n}) = 1
     /\ \A f, g \in files' : f.stored_name = g.stored_name => f = g
     /\ \A f \in files, g \in files' : f.id = g.id => f.user_id = g.user_id]_vars
\* C34: whenever signup returns an error, the call has added no user row: it
\* returns from before its INSERT took effect, and the users table is as it
\* was (a call that has passed its INSERT stands at the read-back).
C34_FailedSignupAddsNothing ==
  [][\A c \in SignupCalls :
       (signups[c].result = Pending /\ signups'[c].result.kind = "Err") =>
         /\ users' = users
         /\ signups[c].pc \notin {"last_id", "fetch"}]_vars

\* C35: whenever signup(email, password, role) returns Ok(user), other signups
\* running at the same time or not, the user is the row of this call: a row
\* of the users table with the email and the role given.
C35_ReturnsOwnRow ==
  \A c \in SignupCalls :
    signups[c].result.kind = "Ok" =>
      /\ signups[c].result.user \in users
      /\ signups[c].result.user.email = signups[c].email
      /\ signups[c].result.user.role = signups[c].role
\* Two delete calls for one stored file, both by the user who stored it, both
\* returned.
OwnerDeletePairs ==
  {p \in Calls \X Calls :
     /\ p[1] # p[2]
     /\ \A i \in 1..2 : calls[p[i]].op = "delete" /\ calls[p[i]].pc = "done"
     /\ calls[p[1]].id = calls[p[2]].id /\ calls[p[1]].user = calls[p[2]].user
     /\ \E s \in StoreCalls :
          /\ calls[s].result.kind = "Ok"
          /\ calls[s].id = calls[p[1]].id /\ calls[s].user = calls[p[1]].user}

\* C36 as stated: of two delete calls by the owner for one file_id that run
\* at the same time, at most one returns Ok, the other returns NotFound or an
\* I/O error, and afterwards neither the metadata row nor the blob exists.
C36_OtherNotFoundOrIo ==
  \A p \in OwnerDeletePairs :
    /\ ~(calls[p[1]].result = OkUnit /\ calls[p[2]].result = OkUnit)
    /\ \E i \in 1..2 : calls[p[i]].result \in {Err(FileNotFound), Err(IoError)}
    /\ RowsWithId(calls[p[1]].id) = {}
    /\ \A n \in DOMAIN blobs : n.id # calls[p[1]].id

\* C36: of two delete calls by the owner for one file_id that run at the same
\* time, at most one returns Ok; when one does, the other returns an error
\* (NotFound, an I/O error, or the Persistence error of its own failed
\* DELETE), and afterwards neither the metadata row nor the blob exists.
C36_AtMostOneOk ==
  \A p \in OwnerDeletePairs :
    /\ ~(calls[p[1]].result = OkUnit /\ calls[p[2]].result = OkUnit)
    /\ calls[p[1]].result = OkUnit =>
         /\ calls[p[2]].result \in {Err(FileNotFound), Err(IoError), Err(DeleteFailed)}
         /\ RowsWithId(calls[p[1]].id) = {}
         /\ \A n \in DOMAIN blobs : n.id # calls[p[1]].id

\* Two racing deletes by the owner have returned, one Ok and one NotFound
\* after both had found the row.
C36_Witness ==
  \E p \in OwnerDeletePairs :
    /\ calls[p[1]].result = OkUnit /\ calls[p[2]].result = Err(FileNotFound)
    /\ calls[p[1]].row # NoFile /\ calls[p[2]].row # NoFile
    /\ Did(p[2], Db("delete", TRUE))
\* C37: validate keeps nothing between calls: what a call returns is what the
\* token, the secret, the clock and the users table of that moment give, so
\* a token rejected with RoleChanged is accepted by the next validate of it
\* once the user's role is again the role in the token and the token has not
\* expired.
C37_ValidateStateless ==
  [][lastValidate' # lastValidate =>
       LET token == lastValidate'.token
           user == FindUserById(ParseId(token.sub))
       IN /\ lastValidate'.result = ValidateResult(token)
          /\ (/\ lastValidate = [token |-> token, result |-> Err(RoleChanged)]
              /\ user.role = token.role
              /\ now <= token.exp) => lastValidate'.result = OkUser(user)]_vars

\* The latest validate rejected a token with RoleChanged, and the user's role
\* is by now again the role in that token, which has not expired.
C37_Witness ==
  /\ lastValidate.result = Err(RoleChanged)
  /\ lastValidate.token \in issued
  /\ FindUserById(ParseId(lastValidate.token.sub)).role = lastValidate.token.role
  /\ now <= lastValidate.token.exp

\* C38: validate of a correctly signed, unexpired token whose subject is not
\* the id of a user in the store (the user was deleted, or the subject is not
\* an integer) fails with InvalidToken, and a User that validate returns is a
\* row of the users table.
C38_UnknownSubjectRejected ==
  [][lastValidate' # lastValidate =>
       LET token == lastValidate'.token
       IN /\ (/\ token.key = JwtSecret
              /\ now <= token.exp
              /\ \/ ~token.sub.decimal
                 \/ \A u \in users : u.id # ParseId(token.sub))
             => lastValidate'.result = Err(InvalidToken)
          /\ lastValidate'.result.kind = "Ok" => lastValidate'.result.user \in users]_vars

\* A token login returned, still unexpired, was rejected with InvalidToken
\* after its user had been deleted.
C38_Witness ==
  /\ lastValidate.token \in issued
  /\ now <= lastValidate.token.exp
  /\ FindUserById(ParseId(lastValidate.token.sub)) = NoUser
  /\ lastValidate.result = Err(InvalidToken)
====

